---- MODULE Spec2Model ----
(***************************************************************************)
(* A model of the Withings MCP bridge: the OAuth broker (register,         *)
(* authorize, callback, token), the rate limiter in front of its public    *)
(* endpoints, the database function check_rate_limit, and the table of     *)
(* live MCP sessions with their SSE transports.                            *)
(*                                                                         *)
(* Each component has its own specification over its own variables; the    *)
(* variables of the other components stay as Init left them.               *)
(***************************************************************************)
EXTENDS Integers, Sequences, FiniteSets, TLC

(***************************************************************************)
(* Values shared by the components.                                        *)
(***************************************************************************)

\* A query or body parameter that was not sent (JavaScript undefined).
NoValue == "<undefined>"

\* JavaScript truthiness of a string parameter: undefined and "" are falsy.
Falsy(x) == x = NoValue \/ x = ""

\* A column that holds SQL NULL, and a lookup that found nothing.
Null == "<null>"

(***************************************************************************)
(* PKCE: sha256 and base64URLEncode.                                       *)
(***************************************************************************)

\* The verifiers a client presents at /token.
Verifiers == {"verifier-1", "verifier-2"}

\* crypto.createHash('sha256').update(buffer).digest(): the 32 digest bytes,
\* tabulated for the verifiers of the model.
sha256(buffer) ==
  CASE buffer = "verifier-1" ->
    <<197, 54, 17, 4, 180, 195, 183, 88, 18, 223, 234, 240, 255, 113, 65,
    85, 167, 217, 210, 35, 96, 245, 182, 88, 5, 177, 188, 125, 19, 239,
    144, 75>>
    [] buffer = "verifier-2" ->
    <<20, 147, 183, 183, 67, 196, 240, 121, 110, 192, 253, 191, 251, 187,
    200, 178, 117, 102, 141, 65, 42, 112, 200, 86, 13, 26, 112, 1, 3, 129,
    207, 173>>

\* The base64 alphabet of Buffer.toString('base64'), index 0 first.
Base64Alphabet ==
  <<"A", "B", "C", "D", "E", "F", "G", "H", "I", "J", "K", "L", "M", "N",
  "O", "P", "Q", "R", "S", "T", "U", "V", "W", "X", "Y", "Z", "a", "b",
  "c", "d", "e", "f", "g", "h", "i", "j", "k", "l", "m", "n", "o", "p",
  "q", "r", "s", "t", "u", "v", "w", "x", "y", "z", "0", "1", "2", "3",
  "4", "5", "6", "7", "8", "9", "+", "/">>

Base64Char(i) == Base64Alphabet[i + 1]

\* Buffer.toString('base64'): three bytes become four characters; a tail of
\* one or two bytes is padded with "=".
toBase64(bytes) ==
  LET n == Len(bytes)
      Byte(i) == IF i <= n THEN bytes[i] ELSE 0
      Sextet(g, k) ==
        CASE k = 1 -> Byte(3 * g + 1) \div 4
          [] k = 2 -> (Byte(3 * g + 1) % 4) * 16 + (Byte(3 * g + 2) \div 16)
          [] k = 3 -> (Byte(3 * g + 2) % 16) * 4 + (Byte(3 * g + 3) \div 64)
          [] k = 4 -> Byte(3 * g + 3) % 64
  IN [ p \in 1..(4 * ((n + 2) \div 3)) |->
         LET g == (p - 1) \div 4
             k == ((p - 1) % 4) + 1
         IN IF 3 * g + k - 1 > n THEN "=" ELSE Base64Char(Sextet(g, k)) ]

\* String.replace(/x/g, y) for a one-character pattern; y = "" deletes.
RECURSIVE replaceAll(_, _, _)
replaceAll(str, x, y) ==
  IF Len(str) = 0 THEN <<>>
  ELSE (IF str[1] = x THEN (IF y = "" THEN <<>> ELSE <<y>>) ELSE <<str[1]>>)
       \o replaceAll(Tail(str), x, y)

\* A mutant of base64URLEncode: the padding is left in place.
base64URLEncodeKeepsPadding(str) ==
  replaceAll(replaceAll(toBase64(str), "+", "-"), "/", "_")

base64URLEncode(str) ==
  replaceAll(replaceAll(replaceAll(toBase64(str), "+", "-"), "/", "_"), "=", "")

\* The code_challenge values a client sends to /authorize.  The first is
\* BASE64URL(SHA256("verifier-1")) as RFC 7636 defines it; the second is the
\* same digest in plain base64 (with "+", "/" and padding); <<>> stands for
\* no challenge (the parameter missing or empty).
ChallengeOfVerifier1 ==
  <<"x", "T", "Y", "R", "B", "L", "T", "D", "t", "1", "g", "S", "3", "-",
  "r", "w", "_", "3", "F", "B", "V", "a", "f", "Z", "0", "i", "N", "g",
  "9", "b", "Z", "Y", "B", "b", "G", "8", "f", "R", "P", "v", "k", "E",
  "s">>

PlainBase64OfVerifier1 ==
  <<"x", "T", "Y", "R", "B", "L", "T", "D", "t", "1", "g", "S", "3", "+",
  "r", "w", "/", "3", "F", "B", "V", "a", "f", "Z", "0", "i", "N", "g",
  "9", "b", "Z", "Y", "B", "b", "G", "8", "f", "R", "P", "v", "k", "E",
  "s", "=">>

ChallengeOfVerifier2 ==
  <<"F", "J", "O", "3", "t", "0", "P", "E", "8", "H", "l", "u", "w", "P",
  "2", "_", "-", "7", "v", "I", "s", "n", "V", "m", "j", "U", "E", "q",
  "c", "M", "h", "W", "D", "R", "p", "w", "A", "Q", "O", "B", "z", "6",
  "0">>

NoChallenge == <<>>

Challenges == {NoChallenge, ChallengeOfVerifier1, PlainBase64OfVerifier1}

\* code_challenge and code_challenge_method as a client sends them together.
PkceParams ==
  { <<NoChallenge, NoValue>>, <<ChallengeOfVerifier1, "S256">>,
    <<PlainBase64OfVerifier1, "S256">> }

(***************************************************************************)
(* Bounds of the model.                                                    *)
(***************************************************************************)

\* How many identifiers crypto.randomUUID() hands out in one run.
MaxUuid == 4

\* How far the clock advances, in units of ten minutes.
MaxTime == 2

\* How many POST /token requests are in progress at once.
MaxTokenReqs == 2

\* How many GET /callback requests are in progress at once.
MaxCallbackReqs == 1

\* Calls of RateLimiter.checkLimit, and invocations of check_rate_limit, that
\* a behaviour makes; each may overlap every other.
MaxLimitCalls == 3

\* The largest maxRequests of a rate-limit configuration.
MaxMaxRequests == 2

\* windowMs of the rate-limit configurations, in units of ten minutes.
LimitWindowMs == 1

\* Event streams of /mcp that a behaviour opens (and session ids that
\* crypto.randomUUID() makes for them), and POST requests to existing
\* sessions that it makes.
MaxMcpGets == 2

MaxMcpPosts == 1

\* Heartbeats written to one event stream.
MaxHeartbeats == 2

\* How far the clock runs where sessions idle: past SESSION_TIMEOUT.
MaxIdleTime == 4

\* How many makeWithingsRequest calls are in progress at once, and how many
\* token pairs the provider issues on refresh.
MaxApiCalls == 2

MaxGrants == 2

(***************************************************************************)
(* Program constants.  Times are in units of ten minutes.                  *)
(***************************************************************************)

\* SESSION_TTL_MS = 10 * 60 * 1000: ten minutes.
SESSION_TTL_MS == 1

\* TTL_MS = 30 * 24 * 60 * 60 * 1000: thirty days.
TTL_MS == 4320

\* MCP_TOKEN_TTL_SECONDS = 30 * 24 * 60 * 60.
MCP_TOKEN_TTL_SECONDS == 2592000

SESSION_TIMEOUT == 3

\* EXPIRY_BUFFER_MS = 5 * 60 * 1000, in milliseconds.
EXPIRY_BUFFER_MS == 300000

(***************************************************************************)
(* The state.                                                              *)
(***************************************************************************)

VARIABLES
  now,                 \* Date.now(), in units of ten minutes
  uuid,                \* how many UUIDs crypto.randomUUID() has handed out
  registered_clients,  \* table registered_clients, keyed by client_id
  oauth_sessions,      \* table oauth_sessions, keyed by session_id
  auth_codes,          \* table auth_codes, keyed by code
  mcp_tokens,          \* table mcp_tokens, keyed by mcp_token
  callbackReq,         \* the GET /callback requests in progress
  tokenReq,            \* the POST /token requests in progress
  resp,                \* the HTTP response sent last
  handed,              \* per code: how often consumeAuthCode returned its row
  minted,              \* per bridge token: the /token request that minted it
  flows,               \* per internal state: what the client sent /authorize
  rate_limits,         \* table rate_limits, keyed by identifier
  limitCall,           \* the RateLimiter.checkLimit calls in progress
  limitTxn,            \* the check_rate_limit transactions in progress
  rowLock,             \* per identifier: the transaction holding its row lock
  sessions,            \* SessionManager.sessions, keyed by session id
  transports,          \* every HonoSSETransport created, by its number
  mcpGet,              \* the event streams of /mcp, from handshake to abort
  mcpPost,             \* the POST /mcp requests of existing sessions
  delivered,           \* per transport: the messages its handler received
  mcpDone,             \* the /mcp request answered, or the sweep run, last
  entropy,             \* how many encrypt calls have drawn random bytes
  apiCall,             \* the makeWithingsRequest calls in progress
  apiDone,             \* the makeWithingsRequest call that ended last
  grants,              \* how many token pairs the provider has issued
  vaultDone,           \* the TokenStore call that ended last
  tampered,            \* the bridge tokens whose stored ciphertext was altered
  issued,              \* per bridge token: when and with what it was stored
  env,                 \* process.env
  boot                 \* how far start-up has come, and what it ended in

\* The clock is shared; every other variable belongs to one component.
oauthVars == << uuid, registered_clients, oauth_sessions, auth_codes,
                mcp_tokens, callbackReq, tokenReq, resp, handed, minted,
                flows, entropy >>

limitVars == << rate_limits, limitCall, limitTxn, rowLock >>

mcpVars == << sessions, transports, mcpGet, mcpPost, delivered, mcpDone >>

apiVars == << apiCall, apiDone, grants, vaultDone, tampered, issued >>

bootVars == << env, boot >>

vars == << now, oauthVars, limitVars, mcpVars, apiVars, bootVars >>

(***************************************************************************)
(* Tables: a function from the unique key to the row.                      *)
(***************************************************************************)

EmptyTable == [k \in {} |-> Null]

Upsert(table, key, row) ==
  [k \in DOMAIN table \cup {key} |-> IF k = key THEN row ELSE table[k]]

DeleteKey(table, key) == [k \in DOMAIN table \ {key} |-> table[k]]

DeleteWhere(table, gone) ==
  [k \in DOMAIN table \ gone |-> table[k]]

(***************************************************************************)
(* Inputs of the requests.                                                 *)
(***************************************************************************)

\* The n-th value of crypto.randomUUID(): never the same value twice.
UUID(n) == "uuid-" \o ToString(n)

randomUUID == UUID(uuid + 1)

AllUuids == {UUID(n) : n \in 1..MaxUuid}

RedirectUris == {"https://app.example/cb", "https://evil.example/cb"}

\* The redirect_uris a client registers: none, or the application's.
RegisteredUriSets == {{}, {"https://app.example/cb"}}

ClientStates == {"S1"}

WithingsCodes == {"PC1"}

(***************************************************************************)
(* utils/encryption.  A string is the sequence of its UTF-16 code units, a *)
(* Buffer the sequence of its bytes.  AES-256-GCM is a stream cipher with  *)
(* an authentication tag: each plaintext byte is combined with a keystream *)
(* byte made from the key and the IV, and the tag depends on the key, the  *)
(* IV and every ciphertext byte, so that a change of any one byte of the   *)
(* salt, the IV, the tag or the ciphertext makes the tag check fail.       *)
(***************************************************************************)

IV_LENGTH == 16

SALT_LENGTH == 32

TAG_LENGTH == 16

KEY_LENGTH == 32

\* The replacement character U+FFFD.
ReplacementChar == 65533

IsHighSurrogate(c) == c >= 55296 /\ c <= 56319

IsLowSurrogate(c) == c >= 56320 /\ c <= 57343

\* Buffer.from(str, "utf8"): one to four bytes per code point; a surrogate
\* without its partner is written as U+FFFD.
RECURSIVE utf8Encode(_)
utf8Encode(str) ==
  IF Len(str) = 0 THEN <<>>
  ELSE LET c == str[1] IN
    IF c < 128 THEN <<c>> \o utf8Encode(Tail(str))
    ELSE IF c < 2048
    THEN <<192 + (c \div 64), 128 + (c % 64)>> \o utf8Encode(Tail(str))
    ELSE IF IsHighSurrogate(c) /\ Len(str) > 1 /\ IsLowSurrogate(str[2])
    THEN LET cp == 65536 + (c - 55296) * 1024 + (str[2] - 56320) IN
         << 240 + (cp \div 262144), 128 + ((cp \div 4096) % 64),
            128 + ((cp \div 64) % 64), 128 + (cp % 64) >>
         \o utf8Encode(Tail(Tail(str)))
    ELSE LET u == IF IsHighSurrogate(c) \/ IsLowSurrogate(c)
                  THEN ReplacementChar ELSE c IN
         <<224 + (u \div 4096), 128 + ((u \div 64) % 64), 128 + (u % 64)>>
         \o utf8Encode(Tail(str))

IsContinuation(bytes, i) ==
  i <= Len(bytes) /\ bytes[i] >= 128 /\ bytes[i] < 192

\* buffer.toString("utf8"): the code units of each encoded code point; a
\* byte that starts no complete sequence becomes U+FFFD.
RECURSIVE utf8Decode(_)
utf8Decode(bytes) ==
  IF Len(bytes) = 0 THEN <<>>
  ELSE LET b == bytes[1] IN
    IF b < 128 THEN <<b>> \o utf8Decode(Tail(bytes))
    ELSE IF b >= 194 /\ b < 224 /\ IsContinuation(bytes, 2)
    THEN <<(b - 192) * 64 + (bytes[2] - 128)>>
         \o utf8Decode(SubSeq(bytes, 3, Len(bytes)))
    ELSE IF b >= 224 /\ b < 240 /\ IsContinuation(bytes, 2)
            /\ IsContinuation(bytes, 3)
    THEN <<(b - 224) * 4096 + (bytes[2] - 128) * 64 + (bytes[3] - 128)>>
         \o utf8Decode(SubSeq(bytes, 4, Len(bytes)))
    ELSE IF b >= 240 /\ b < 245 /\ IsContinuation(bytes, 2)
            /\ IsContinuation(bytes, 3) /\ IsContinuation(bytes, 4)
    THEN LET cp == (b - 240) * 262144 + (bytes[2] - 128) * 4096
                   + (bytes[3] - 128) * 64 + (bytes[4] - 128) - 65536 IN
         <<55296 + (cp \div 1024), 56320 + (cp % 1024)>>
         \o utf8Decode(SubSeq(bytes, 5, Len(bytes)))
    ELSE <<ReplacementChar>> \o utf8Decode(Tail(bytes))

\* The value of a base64 character; "=" counts as nothing.
Base64Table ==
  [ c \in { Base64Alphabet[i] : i \in 1..64 } |->
      CHOOSE i \in 0..63 : Base64Alphabet[i + 1] = c ]

Base64Index(c) == IF c = "=" THEN 0 ELSE Base64Table[c]

\* Buffer.from(str, "base64"): four characters become three bytes; a group
\* that ends in "=" gives two bytes, one that ends in "==" gives one.
fromBase64(str) ==
  LET n == Len(str)
      padding == IF n = 0 \/ str[n] # "=" THEN 0
                 ELSE IF str[n - 1] # "=" THEN 1 ELSE 2
      Sextet(g, k) == Base64Index(str[4 * g + k])
  IN [ q \in 1..(3 * (n \div 4) - padding) |->
         LET g == (q - 1) \div 3
             k == (q - 1) % 3
         IN CASE k = 0 -> Sextet(g, 1) * 4 + (Sextet(g, 2) \div 16)
              [] k = 1 -> (Sextet(g, 2) % 16) * 16 + (Sextet(g, 3) \div 4)
              [] k = 2 -> (Sextet(g, 3) % 4) * 64 + Sextet(g, 4) ]

\* The UTF-16 code units of the strings that are encrypted as text, and the
\* string of a sequence of code units.
CodeUnits(str) == CASE str = "PC1" -> <<80, 67, 49>>

FromCodeUnits(units) ==
  IF units = CodeUnits("PC1") THEN "PC1" ELSE "<other text>"

\* process.env.ENCRYPTION_SECRET values: unset (or empty, which `!secret`
\* treats alike), 31 characters, and 32 characters.
NoSecret == <<>>

ShortSecret == [i \in 1..31 |-> 115]

GoodSecret == [i \in 1..32 |-> 107]

Secrets == {NoSecret, ShortSecret, GoodSecret}

\* getMasterSecret throws for a secret that is unset or shorter than 32.
getMasterSecretThrows ==
  Len(env.ENCRYPTION_SECRET) = 0 \/ Len(env.ENCRYPTION_SECRET) < 32

getMasterSecret == env.ENCRYPTION_SECRET

\* crypto.randomBytes(size), as the draw-th call returns it.
randomBytes(size, draw) == [i \in 1..size |-> (draw * 37 + i * 5) % 256]

\* buffer.subarray(start, end).
subarray(buffer, start, end) ==
  SubSeq(buffer, start + 1, IF end < Len(buffer) THEN end ELSE Len(buffer))

\* pbkdf2Sync(masterSecret, salt, ITERATIONS, KEY_LENGTH, "sha256"): every
\* key byte depends on the secret and on the salt.
deriveKey(masterSecret, salt) ==
  [ i \in 1..KEY_LENGTH |->
      (masterSecret[((i - 1) % Len(masterSecret)) + 1]
       + (IF Len(salt) = 0 THEN 0 ELSE salt[((i - 1) % Len(salt)) + 1]) * 3)
      % 256 ]

\* The keystream byte of position i.
keystream(key, iv, i) ==
  (key[((i - 1) % KEY_LENGTH) + 1] * 7
   + (IF Len(iv) = 0 THEN 0 ELSE iv[((i - 1) % Len(iv)) + 1]) + i) % 256

\* cipher.update(...) followed by cipher.final().
cipherUpdate(key, iv, bytes) ==
  [ i \in 1..Len(bytes) |-> (bytes[i] + keystream(key, iv, i)) % 256 ]

\* A mutant of decipherUpdate: the keystream is left in.
decipherUpdateKeepsKeystream(key, iv, bytes) == bytes

\* decipher.update(...).
decipherUpdate(key, iv, bytes) ==
  [ i \in 1..Len(bytes) |-> (bytes[i] + 256 - keystream(key, iv, i)) % 256 ]

\* The sum of the bytes from position i on, and the sum of each such byte
\* times its position.
RECURSIVE ByteSum(_, _)
ByteSum(bytes, i) ==
  IF i > Len(bytes) THEN 0 ELSE bytes[i] + ByteSum(bytes, i + 1)

RECURSIVE PositionSum(_, _)
PositionSum(bytes, i) ==
  IF i > Len(bytes) THEN 0 ELSE i * bytes[i] + PositionSum(bytes, i + 1)

\* cipher.getAuthTag(): the tag of the ciphertext under the key and the IV.
\* Byte j of the tag weighs the byte at position i with i + j.
getAuthTag(key, iv, encrypted) ==
  LET plain == ByteSum(key, 1) + ByteSum(iv, 1) * 3
               + ByteSum(encrypted, 1) * 5
      weighted == PositionSum(key, 1) + PositionSum(iv, 1) * 3
                  + PositionSum(encrypted, 1) * 5
  IN [ j \in 1..TAG_LENGTH |->
         (weighted + j * plain + Len(encrypted)) % 256 ]

\* encrypt(plaintext) as the call that makes the draw-th and the next draw
\* of random bytes: base64 of salt + iv + tag + ciphertext.
encrypt(plaintext, draw) ==
  LET masterSecret == getMasterSecret
      salt == randomBytes(SALT_LENGTH, draw)
      iv == randomBytes(IV_LENGTH, draw + 1)
      key == deriveKey(masterSecret, salt)
      encrypted == cipherUpdate(key, iv, utf8Encode(plaintext))
      tag == getAuthTag(key, iv, encrypted)
      combined == salt \o iv \o tag \o encrypted
  IN toBase64(combined)

\* What decrypt ends in: the plaintext, or an exception.
DecryptThrew == [ threw |-> TRUE, plaintext |-> <<>> ]

\* decrypt(encryptedData): decipher.final() throws when the tag does not
\* belong to the key, the IV and the ciphertext; setAuthTag throws for a
\* tag cut short.
decrypt(encryptedData) ==
  IF getMasterSecretThrows THEN DecryptThrew
  ELSE
  LET masterSecret == getMasterSecret
      combined == fromBase64(encryptedData)
      salt == subarray(combined, 0, SALT_LENGTH)
      iv == subarray(combined, SALT_LENGTH, SALT_LENGTH + IV_LENGTH)
      tag == subarray(combined, SALT_LENGTH + IV_LENGTH,
                      SALT_LENGTH + IV_LENGTH + TAG_LENGTH)
      encrypted == subarray(combined, SALT_LENGTH + IV_LENGTH + TAG_LENGTH,
                            Len(combined))
      key == deriveKey(masterSecret, salt)
  IN IF Len(tag) = TAG_LENGTH /\ tag = getAuthTag(key, iv, encrypted)
     THEN [ threw |-> FALSE,
            plaintext |-> utf8Decode(decipherUpdate(key, iv, encrypted)) ]
     ELSE DecryptThrew

(***************************************************************************)
(* OAuthStore.                                                             *)
(***************************************************************************)

\* `x || null` for a string parameter, `row.x || undefined` for a column.
OrNull(x) == IF Falsy(x) THEN Null ELSE x

OrUndefined(x) == IF x = Null \/ x = "" THEN NoValue ELSE x

\* A mutant of storeSession: the session's own id is stored as the state.
storeSessionStateIsSessionId(rows, sessionId, session) ==
  Upsert(rows, sessionId,
         [ state                 |-> sessionId,
           code_challenge        |-> session.codeChallenge,
           code_challenge_method |-> OrNull(session.codeChallengeMethod),
           redirect_uri          |-> session.redirectUri,
           client_id             |-> OrNull(session.clientId),
           expires_at            |-> now + SESSION_TTL_MS ])

storeSession(rows, sessionId, session) ==
  Upsert(rows, sessionId,
         [ state                 |-> session.state,
           code_challenge        |-> session.codeChallenge,
           code_challenge_method |-> OrNull(session.codeChallengeMethod),
           redirect_uri          |-> session.redirectUri,
           client_id             |-> OrNull(session.clientId),
           expires_at            |-> now + SESSION_TTL_MS ])

NoSession ==
  [ found |-> FALSE, state |-> NoValue, codeChallenge |-> NoChallenge,
    codeChallengeMethod |-> NoValue, redirectUri |-> NoValue,
    clientId |-> NoValue ]

\* A mutant of getSession: the SELECT without .gt("expires_at", now).
getSessionIgnoresExpiry(sessionId) ==
  IF sessionId \in DOMAIN oauth_sessions
  THEN LET row == oauth_sessions[sessionId] IN
       [ found               |-> TRUE,
         state               |-> row.state,
         codeChallenge       |-> row.code_challenge,
         codeChallengeMethod |-> OrUndefined(row.code_challenge_method),
         redirectUri         |-> row.redirect_uri,
         clientId            |-> OrUndefined(row.client_id) ]
  ELSE NoSession

getSession(sessionId) ==
  IF sessionId \in DOMAIN oauth_sessions
     /\ oauth_sessions[sessionId].expires_at > now
  THEN LET row == oauth_sessions[sessionId] IN
       [ found               |-> TRUE,
         state               |-> row.state,
         codeChallenge       |-> row.code_challenge,
         codeChallengeMethod |-> OrUndefined(row.code_challenge_method),
         redirectUri         |-> row.redirect_uri,
         clientId            |-> OrUndefined(row.client_id) ]
  ELSE NoSession

deleteSession(rows, sessionId) == DeleteKey(rows, sessionId)

storeAuthCode(codes, code, data) ==
  Upsert(codes, code,
         [ withings_code  |-> encrypt(CodeUnits(data.withingsCode), entropy),
           client_id      |-> OrNull(data.clientId),
           redirect_uri   |-> data.redirectUri,
           code_challenge |-> data.codeChallenge,
           expires_at     |-> now + SESSION_TTL_MS ])

NoAuthCode ==
  [ found |-> FALSE, withingsCode |-> NoValue, clientId |-> NoValue,
    redirectUri |-> NoValue, codeChallenge |-> NoChallenge ]

\* The row the DELETE ... RETURNING of consumeAuthCode matches.
AuthCodeLive(codes, code) ==
  code \in DOMAIN codes /\ codes[code].expires_at > now

\* A mutant of consumeAuthCode: the row is returned and left in the table.
consumeAuthCodeKeepsRow(codes, code) ==
  IF AuthCodeLive(codes, code)
  THEN [ data  |-> [ found         |-> TRUE,
                     withingsCode  |-> FromCodeUnits(
                       decrypt(codes[code].withings_code).plaintext),
                     clientId      |-> OrUndefined(codes[code].client_id),
                     redirectUri   |-> codes[code].redirect_uri,
                     codeChallenge |-> codes[code].code_challenge ],
         codes |-> codes ]
  ELSE [ data |-> NoAuthCode, codes |-> codes ]

\* A mutant of consumeAuthCode: the row is deleted whether live or not.
consumeAuthCodeDeletesExpired(codes, code) ==
  IF AuthCodeLive(codes, code)
  THEN [ data  |-> [ found         |-> TRUE,
                     withingsCode  |-> FromCodeUnits(
                       decrypt(codes[code].withings_code).plaintext),
                     clientId      |-> OrUndefined(codes[code].client_id),
                     redirectUri   |-> codes[code].redirect_uri,
                     codeChallenge |-> codes[code].code_challenge ],
         codes |-> DeleteKey(codes, code) ]
  ELSE [ data |-> NoAuthCode,
         codes |-> IF code \in DOMAIN codes THEN DeleteKey(codes, code)
                   ELSE codes ]

\* consumeAuthCode: one statement deletes the live row and returns it.  The
\* result is the data handed to the caller and the table afterwards.
consumeAuthCode(codes, code) ==
  IF AuthCodeLive(codes, code)
  THEN [ data  |-> [ found         |-> TRUE,
                     withingsCode  |-> FromCodeUnits(
                       decrypt(codes[code].withings_code).plaintext),
                     clientId      |-> OrUndefined(codes[code].client_id),
                     redirectUri   |-> codes[code].redirect_uri,
                     codeChallenge |-> codes[code].code_challenge ],
         codes |-> DeleteKey(codes, code) ]
  ELSE [ data |-> NoAuthCode, codes |-> codes ]

registerClient(clients, clientId, client) ==
  Upsert(clients, clientId,
         [ client_secret |-> Null, redirect_uris |-> client.redirectUris ])

NoClient == [ found |-> FALSE, clientId |-> NoValue, redirectUris |-> {} ]

getClient(clientId) ==
  IF clientId \in DOMAIN registered_clients
  THEN [ found        |-> TRUE,
         clientId     |-> clientId,
         redirectUris |-> registered_clients[clientId].redirect_uris ]
  ELSE NoClient

(***************************************************************************)
(* TokenStore.                                                             *)
(***************************************************************************)

storeTokens(tokens, mcpToken, tokenData) ==
  Upsert(tokens, mcpToken,
         [ encrypted_access_token  |->
             encrypt(tokenData.withingsAccessToken, entropy),
           encrypted_refresh_token |->
             encrypt(tokenData.withingsRefreshToken, entropy + 2),
           withings_user_id        |-> tokenData.withingsUserId,
           withings_expires_at     |-> tokenData.expiresAt,
           expires_at              |-> now + TTL_MS ])

(***************************************************************************)
(* The provider's token endpoint.                                          *)
(***************************************************************************)

\* What a call of the provider's token endpoint ends in: status 0 with a
\* token body, another status, or a failed fetch.
ProviderOutcomes == {"ok", "status", "throw"}

\* body.expires_in of the provider, in seconds: three hours.
ProviderExpiresIn == {10800}

\* Lifetimes the provider may give its access token, in seconds: thirteen
\* minutes, three hours, a day.
ExchangeLifetimes == {780, 10800, 86400}

\* The n-th token pair the provider issues: "a" and "r" followed by the
\* digit n.
ProviderAccessToken(n) == <<97, 48 + n>>

ProviderRefreshToken(n) == <<114, 48 + n>>

ProviderBody(expiresIn) ==
  [ access_token |-> ProviderAccessToken(0),
    refresh_token |-> ProviderRefreshToken(0),
    userid |-> "withings-user", expires_in |-> expiresIn ]

\* Date.now() in milliseconds; the clock counts units of ten minutes.
Date_now == now * 600000

(***************************************************************************)
(* HTTP responses of the OAuth router.  `facts` records what was true of   *)
(* the request and of the tables when the handler ran; it is read straight *)
(* from the tables, not from what the handler computed.                    *)
(***************************************************************************)

NoLocation == [ to |-> "", code |-> "", state |-> "" ]

NoBody ==
  [ client_id |-> "", access_token |-> "", token_type |-> "",
    expires_in |-> 0 ]

NoFacts == [ none |-> TRUE ]

NoResp ==
  [ ep |-> "none", status |-> 0, error |-> "", location |-> NoLocation,
    body |-> NoBody, facts |-> NoFacts ]

Json(ep, status, error, facts) ==
  [ NoResp EXCEPT !.ep = ep, !.status = status, !.error = error,
                  !.facts = facts ]

Redirect(ep, to, code, state, facts) ==
  [ NoResp EXCEPT !.ep = ep, !.status = 302,
                  !.location = [ to |-> to, code |-> code, state |-> state ],
                  !.facts = facts ]

\* An identifier that crypto.randomUUID() never handed out.
UnknownId == "uuid-unknown"

(***************************************************************************)
(* POST /register.                                                         *)
(***************************************************************************)

Register(redirect_uris) ==
  /\ uuid < MaxUuid
  /\ LET clientId == randomUUID IN
     /\ uuid' = uuid + 1
     /\ registered_clients' =
          registerClient(registered_clients, clientId,
                         [ clientId |-> clientId,
                           redirectUris |-> redirect_uris ])
     /\ resp' = [ Json("register", 200, "", NoFacts)
                  EXCEPT !.body.client_id = clientId ]
  /\ UNCHANGED << now, oauth_sessions, auth_codes, mcp_tokens, callbackReq,
                  tokenReq, handed, minted >>
  /\ UNCHANGED << flows, entropy, limitVars, mcpVars, apiVars, bootVars >>

(***************************************************************************)
(* GET /authorize.                                                         *)
(***************************************************************************)

\* The query parameters of a request to /authorize.
AuthorizeRequests(responseTypes, clientIds, redirectUris, states, pkces) ==
  [ responseType : responseTypes,
    clientId     : clientIds,
    redirectUri  : redirectUris,
    state        : states,
    pkce         : pkces ]

\* A mutant of AuthorizeValidation: any redirect_uri of a registered client
\* is accepted.
AuthorizeValidationAnyRedirect(responseType, clientId, redirectUri, state) ==
  IF responseType # "code" THEN "unsupported_response_type"
  ELSE IF Falsy(redirectUri) THEN "invalid_request"
  ELSE IF Falsy(state) THEN "invalid_request"
  ELSE IF Falsy(clientId) THEN "invalid_request"
  ELSE IF ~getClient(clientId).found THEN "invalid_client"
  ELSE "ok"

\* The checks of /authorize in their order: the error code of the first one
\* that fails, or "ok".
AuthorizeValidation(responseType, clientId, redirectUri, state) ==
  IF responseType # "code" THEN "unsupported_response_type"
  ELSE IF Falsy(redirectUri) THEN "invalid_request"
  ELSE IF Falsy(state) THEN "invalid_request"
  ELSE IF Falsy(clientId) THEN "invalid_request"
  ELSE IF ~getClient(clientId).found THEN "invalid_client"
  ELSE IF redirectUri \notin getClient(clientId).redirectUris
       THEN "invalid_request"
  ELSE "ok"

Authorize(q) ==
  LET verdict == AuthorizeValidation(q.responseType, q.clientId,
                                     q.redirectUri, q.state)
      internalState == randomUUID
      known == q.clientId \in DOMAIN registered_clients
      facts == [ clientRegistered |-> known,
                 uriRegistered |->
                   known /\ q.redirectUri \in
                              registered_clients[q.clientId].redirect_uris,
                 clientState |-> q.state,
                 stored |-> oauth_sessions' # oauth_sessions ]
  IN
  /\ IF verdict # "ok"
     THEN /\ UNCHANGED << uuid, oauth_sessions, flows >>
          /\ resp' = Json("authorize", 400, verdict, facts)
     ELSE /\ uuid < MaxUuid
          /\ uuid' = uuid + 1
          /\ oauth_sessions' =
               storeSession(oauth_sessions, internalState,
                            [ state |-> q.state,
                              codeChallenge |-> q.pkce[1],
                              codeChallengeMethod |-> q.pkce[2],
                              redirectUri |-> q.redirectUri,
                              clientId |-> q.clientId ])
          /\ resp' = Redirect("authorize", "withings", "", internalState,
                              facts)
          /\ flows' = Upsert(flows, internalState,
                             [ state |-> q.state,
                               redirectUri |-> q.redirectUri ])
  /\ UNCHANGED << now, registered_clients, auth_codes, mcp_tokens,
                  callbackReq, tokenReq, handed, minted >>
  /\ UNCHANGED << entropy, limitVars, mcpVars, apiVars, bootVars >>

(***************************************************************************)
(* GET /callback: getSession, storeAuthCode and deleteSession are three    *)
(* statements against the database, with other requests running between.   *)
(***************************************************************************)

IdleCallback ==
  [ pc |-> "idle", code |-> NoValue, internalState |-> NoValue,
    session |-> NoSession, authCode |-> NoValue ]

\* A new request takes the first free slot.
FirstIdle(slots, r) ==
  /\ slots[r].pc = "idle"
  /\ \A q \in DOMAIN slots : q < r => slots[q].pc # "idle"

\* The query parameters of a request to /callback.
CallbackRequests(codes) ==
  [ code  : codes,
    state : DOMAIN oauth_sessions \cup {UnknownId, NoValue} ]

\* Lines 333-345: the parameters are checked and the session is read.
CallbackBegin(r, q) ==
  LET facts == [ sessionLive |->
                   /\ q.state \in DOMAIN oauth_sessions
                   /\ oauth_sessions[q.state].expires_at > now ]
  IN
  /\ FirstIdle(callbackReq, r)
  /\ IF Falsy(q.code) \/ Falsy(q.state)
     THEN /\ resp' = Json("callback", 400, "invalid_request", facts)
          /\ UNCHANGED callbackReq
     ELSE IF ~getSession(q.state).found
     THEN /\ resp' = Json("callback", 400, "invalid_state", facts)
          /\ UNCHANGED callbackReq
     ELSE /\ callbackReq' =
               [ callbackReq EXCEPT ![r] =
                   [ pc |-> "storeAuthCode", code |-> q.code,
                     internalState |-> q.state,
                     session |-> getSession(q.state),
                     authCode |-> NoValue ] ]
          /\ UNCHANGED resp
  /\ UNCHANGED << now, uuid, registered_clients, oauth_sessions, auth_codes,
                  mcp_tokens, tokenReq, handed, minted >>
  /\ UNCHANGED << flows, entropy, limitVars, mcpVars, apiVars, bootVars >>

\* Lines 350-358: a fresh authorization code is stored.
CallbackStoreAuthCode(r) ==
  LET c == callbackReq[r]
      authCode == randomUUID
  IN
  /\ c.pc = "storeAuthCode"
  /\ uuid < MaxUuid
  /\ uuid' = uuid + 1
  /\ auth_codes' =
       storeAuthCode(auth_codes, authCode,
                     [ withingsCode  |-> c.code,
                       clientId      |-> c.session.clientId,
                       redirectUri   |-> c.session.redirectUri,
                       codeChallenge |-> c.session.codeChallenge ])
  /\ callbackReq' = [ callbackReq EXCEPT ![r].pc = "deleteSession",
                                         ![r].authCode = authCode ]
  /\ entropy' = entropy + 2
  /\ UNCHANGED << now, registered_clients, oauth_sessions, mcp_tokens,
                  tokenReq, resp, handed, minted >>
  /\ UNCHANGED << flows, limitVars, mcpVars, apiVars, bootVars >>

\* Lines 361-368: the session is deleted and the client is redirected.
CallbackFinish(r) ==
  LET c == callbackReq[r] IN
  /\ c.pc = "deleteSession"
  /\ oauth_sessions' = deleteSession(oauth_sessions, c.internalState)
  /\ resp' = Redirect("callback", c.session.redirectUri, c.authCode,
                      c.session.state, [ sessionLive |-> TRUE ])
  /\ callbackReq' = [ callbackReq EXCEPT ![r] = IdleCallback ]
  /\ UNCHANGED << now, uuid, registered_clients, auth_codes, mcp_tokens,
                  tokenReq, handed, minted >>
  /\ UNCHANGED << flows, entropy, limitVars, mcpVars, apiVars, bootVars >>

(***************************************************************************)
(* POST /token: consumeAuthCode and the checks that follow it, then the    *)
(* call of the provider, then storeTokens and the answer.                  *)
(***************************************************************************)

\* BASE64URL-ENCODE(SHA256(ASCII(code_verifier))) of RFC 7636, section 4.2,
\* for the verifiers of the model.
Rfc7636Challenge(verifier) ==
  CASE verifier = "verifier-1" -> ChallengeOfVerifier1
    [] verifier = "verifier-2" -> ChallengeOfVerifier2

\* How the presented verifier stands to the challenge stored with the code.
PkceCase(challenge, verifier) ==
  IF challenge = NoChallenge THEN "none"
  ELSE IF Falsy(verifier) THEN "missing"
  ELSE IF Rfc7636Challenge(verifier) = challenge THEN "match"
  ELSE "mismatch"

NoTokenFacts ==
  [ grant |-> NoValue, usedBefore |-> FALSE, rowLive |-> FALSE,
    redirectMatches |-> FALSE, pkce |-> "none", provider |-> "" ]

\* What is true of a request to /token when the handler runs.
TokenFacts(q) ==
  IF q.code \in DOMAIN auth_codes
  THEN [ grant           |-> q.grantType,
         usedBefore      |-> handed[q.code] > 0,
         rowLive         |-> auth_codes[q.code].expires_at > now,
         redirectMatches |-> auth_codes[q.code].redirect_uri = q.redirectUri,
         pkce            |-> PkceCase(auth_codes[q.code].code_challenge,
                                      q.codeVerifier),
         provider        |-> "" ]
  ELSE [ NoTokenFacts EXCEPT !.grant = q.grantType,
                             !.usedBefore = handed[q.code] > 0 ]

IdleTokenReq ==
  [ pc |-> "idle", code |-> NoValue, withingsCode |-> NoValue,
    facts |-> NoTokenFacts ]

\* The codes that /callback has handed to a client and that are, or were
\* until a /token request consumed them, in the table.
IssuedCodes == DOMAIN auth_codes \cup {c \in AllUuids : handed[c] > 0}

\* The body parameters of a request to /token.  A request of another grant
\* type carries no verifier and no redirect_uri.
TokenRequests ==
  { q \in [ grantType    : {"authorization_code", "refresh_token"},
            code         : IssuedCodes \cup {UnknownId},
            codeVerifier : Verifiers \cup {"", NoValue},
            redirectUri  : RedirectUris \cup {NoValue} ] :
      q.grantType = "authorization_code"
      \/ (q.codeVerifier = NoValue /\ q.redirectUri = NoValue) }

\* A mutant of TokenValidation: the redirect_uri is not compared.
TokenValidationSkipsRedirectUri(data, redirectUri, codeVerifier) ==
  IF ~data.found THEN "invalid_grant"
  ELSE IF data.codeChallenge # NoChallenge /\ Falsy(codeVerifier)
       THEN "invalid_request"
  ELSE IF data.codeChallenge # NoChallenge
          /\ base64URLEncode(sha256(codeVerifier)) # data.codeChallenge
       THEN "invalid_grant"
  ELSE "ok"

\* Lines 389-414: the checks on what consumeAuthCode returned, in their
\* order: the error code of the first one that fails, or "ok".
TokenValidation(data, redirectUri, codeVerifier) ==
  IF ~data.found THEN "invalid_grant"
  ELSE IF redirectUri # data.redirectUri THEN "invalid_grant"
  ELSE IF data.codeChallenge # NoChallenge /\ Falsy(codeVerifier)
       THEN "invalid_request"
  ELSE IF data.codeChallenge # NoChallenge
          /\ base64URLEncode(sha256(codeVerifier)) # data.codeChallenge
       THEN "invalid_grant"
  ELSE "ok"

\* Lines 376-414, up to the call of the provider.
PostToken(r, q) ==
  LET consumed == consumeAuthCode(auth_codes, q.code)
      verdict == TokenValidation(consumed.data, q.redirectUri,
                                 q.codeVerifier)
      facts == TokenFacts(q)
  IN
  /\ FirstIdle(tokenReq, r)
  /\ IF q.grantType # "authorization_code"
     THEN /\ resp' = Json("token", 400, "unsupported_grant_type", facts)
          /\ UNCHANGED << auth_codes, handed, tokenReq >>
     ELSE /\ auth_codes' = consumed.codes
          /\ handed' = IF consumed.data.found
                       THEN [ handed EXCEPT ![q.code] = @ + 1 ]
                       ELSE handed
          /\ IF verdict # "ok"
             THEN /\ resp' = Json("token", 400, verdict, facts)
                  /\ UNCHANGED tokenReq
             ELSE /\ tokenReq' =
                       [ tokenReq EXCEPT ![r] =
                           [ pc |-> "exchange", code |-> q.code,
                             withingsCode |-> consumed.data.withingsCode,
                             facts |-> facts ] ]
                  /\ UNCHANGED resp
  /\ UNCHANGED << now, uuid, registered_clients, oauth_sessions, mcp_tokens,
                  callbackReq, minted >>
  /\ UNCHANGED << flows, entropy, limitVars, mcpVars, apiVars, bootVars >>

\* A mutant of TokenResponse: the lifetime of the provider's access token
\* is passed on.
TokenResponsePassesProviderTtl(mcpToken, tokenData) ==
  [ NoBody EXCEPT !.access_token = mcpToken, !.token_type = "Bearer",
                  !.expires_in = tokenData.expires_in ]

\* Lines 457-461: the body of the 200 answer.
TokenResponse(mcpToken, tokenData) ==
  [ NoBody EXCEPT !.access_token = mcpToken, !.token_type = "Bearer",
                  !.expires_in = MCP_TOKEN_TTL_SECONDS ]

\* Lines 433-465: the provider's answer, storeTokens and the response.
TokenExchange(r, outcome, expiresIn) ==
  LET t == tokenReq[r]
      mcpToken == randomUUID
      tokenData == ProviderBody(expiresIn)
      facts == [ t.facts EXCEPT !.provider = outcome ]
  IN
  /\ t.pc = "exchange"
  /\ IF outcome = "ok"
     THEN /\ uuid < MaxUuid
          /\ uuid' = uuid + 1
          /\ mcp_tokens' =
               storeTokens(mcp_tokens, mcpToken,
                           [ withingsAccessToken  |-> tokenData.access_token,
                             withingsRefreshToken |-> tokenData.refresh_token,
                             withingsUserId       |-> tokenData.userid,
                             expiresAt |->
                               Date_now + tokenData.expires_in * 1000 ])
          /\ entropy' = entropy + 4
          /\ minted' = Upsert(minted, mcpToken,
                              [ code |-> t.code, facts |-> facts ])
          /\ resp' = [ Json("token", 200, "", facts)
                       EXCEPT !.body = TokenResponse(mcpToken, tokenData) ]
     ELSE /\ resp' = Json("token", 500, "server_error", facts)
          /\ UNCHANGED << uuid, mcp_tokens, minted, entropy >>
  /\ tokenReq' = [ tokenReq EXCEPT ![r] = IdleTokenReq ]
  /\ UNCHANGED << now, registered_clients, oauth_sessions, auth_codes,
                  callbackReq, handed >>
  /\ UNCHANGED << flows, limitVars, mcpVars, apiVars, bootVars >>

(***************************************************************************)
(* db/cleanup: the janitor deletes the rows whose expiry has passed.       *)
(***************************************************************************)

Expired(row) == row.expires_at < now

CleanupOauthSessions ==
  /\ oauth_sessions' = DeleteWhere(oauth_sessions, {k \in DOMAIN oauth_sessions : Expired(oauth_sessions[k])})
  /\ oauth_sessions' # oauth_sessions
  /\ UNCHANGED << now, uuid, registered_clients, auth_codes, mcp_tokens,
                  callbackReq, tokenReq, resp, handed, minted >>
  /\ UNCHANGED << flows, entropy, limitVars, mcpVars, apiVars, bootVars >>

CleanupAuthCodes ==
  /\ auth_codes' = DeleteWhere(auth_codes, {k \in DOMAIN auth_codes : Expired(auth_codes[k])})
  /\ auth_codes' # auth_codes
  /\ UNCHANGED << now, uuid, registered_clients, oauth_sessions, mcp_tokens,
                  callbackReq, tokenReq, resp, handed, minted >>
  /\ UNCHANGED << flows, entropy, limitVars, mcpVars, apiVars, bootVars >>

\* The hourly janitor of mcp_tokens.
CleanupMcpTokens ==
  /\ mcp_tokens' = DeleteWhere(mcp_tokens, {k \in DOMAIN mcp_tokens : Expired(mcp_tokens[k])})
  /\ mcp_tokens' # mcp_tokens
  /\ UNCHANGED << now, uuid, registered_clients, oauth_sessions, auth_codes,
                  callbackReq, tokenReq, resp, handed, minted >>
  /\ UNCHANGED << flows, entropy, limitVars, mcpVars, apiVars, bootVars >>

\* Ten minutes pass.
Advance(until) ==
  /\ now < until
  /\ now' = now + 1
  /\ UNCHANGED << oauthVars, limitVars, mcpVars, apiVars, bootVars >>

Tick == Advance(MaxTime)

(***************************************************************************)
(* The rate limiter of the public OAuth endpoints: RateLimiter.checkLimit  *)
(* and the rateLimit middleware.  checkLimit reads the identifier's row    *)
(* with one statement and writes it with another; both awaits are points   *)
(* where other requests run.                                               *)
(***************************************************************************)

RateLimitConfigs ==
  [ maxRequests : 1..MaxMaxRequests, windowMs : {LimitWindowMs} ]

\* The headers the middleware looks at.  x-forwarded-for is given as the
\* list that split(",") and trim() make of it.
RateLimitHeaders ==
  [ forwardedFor : {<<>>, <<"10.0.0.1", "10.9.9.9">>},
    realIp       : {NoValue, "10.0.0.2"} ]

RateLimitedPaths == {"/token"}

\* Lines 105-107 of the middleware.
ClientIp(headers) ==
  IF headers.forwardedFor # <<>> /\ ~Falsy(headers.forwardedFor[1])
  THEN headers.forwardedFor[1]
  ELSE IF ~Falsy(headers.realIp) THEN headers.realIp
  ELSE "unknown"

\* Line 109.
Identifier(headers, path) == ClientIp(headers) \o ":" \o path

NoResult == [ allowed |-> FALSE, remaining |-> 0, resetTime |-> 0 ]

\* What .single() gives when no row matches: data is null.
NoRow == [ found |-> FALSE, request_count |-> 0, reset_time |-> 0 ]

NoConfig == [ maxRequests |-> 0, windowMs |-> 0 ]

IdleLimitCall ==
  [ pc |-> "idle", identifier |-> NoValue, config |-> NoConfig, now |-> 0,
    current |-> NoRow, result |-> NoResult, status |-> 0, next |-> FALSE,
    storeFailed |-> FALSE ]

\* A mutant of NewWindow: the window is over at its reset time already.
NewWindowAtResetTime(current, at) ==
  ~current.found \/ current.reset_time <= at

\* Line 44: the window is new, or the one stored is over.
NewWindow(current, at) == ~current.found \/ current.reset_time < at

\* The middleware is entered and calls checkLimit, which takes the time
\* (line 32) and sends its SELECT.
RateLimitBegin(c, headers, path, config) ==
  /\ FirstIdle(limitCall, c)
  /\ limitCall' = [limitCall EXCEPT ![c] =
       [ IdleLimitCall EXCEPT !.pc = "select",
                              !.identifier = Identifier(headers, path),
                              !.config = config,
                              !.now = now ]]
  /\ UNCHANGED << rate_limits, limitTxn, rowLock >>
  /\ UNCHANGED << now, oauthVars, mcpVars, apiVars, bootVars >>

\* Lines 36-42: the SELECT runs.
CheckLimitSelect(c) ==
  /\ limitCall[c].pc = "select"
  /\ limitCall' = [limitCall EXCEPT ![c].pc = "decide",
       ![c].current =
          IF limitCall[c].identifier \in DOMAIN rate_limits
          THEN [ found         |-> TRUE,
                 request_count |->
                   rate_limits[limitCall[c].identifier].request_count,
                 reset_time    |->
                   rate_limits[limitCall[c].identifier].reset_time ]
          ELSE NoRow]
  /\ UNCHANGED << rate_limits, limitTxn, rowLock >>
  /\ UNCHANGED << now, oauthVars, mcpVars, apiVars, bootVars >>

\* A mutant of RateLimitStatus: the middleware goes on whatever checkLimit
\* says.
RateLimitStatusNeverRefuses(result) == 0

\* Lines 117-128 of the middleware: 429 when checkLimit says not allowed;
\* otherwise the middleware answers nothing itself.
RateLimitStatus(result) == IF result.allowed THEN 0 ELSE 429

\* Lines 44-90: what checkLimit does with the row it read, and the answer of
\* the middleware.  The upsert and the update write what the call computed
\* from the row it read.
CheckLimitWrite(c) ==
  LET call == limitCall[c]
      current == call.current
      result ==
        IF NewWindow(current, call.now)
        THEN [ allowed   |-> TRUE,
               remaining |-> call.config.maxRequests - 1,
               resetTime |-> call.now + call.config.windowMs ]
        ELSE IF current.request_count >= call.config.maxRequests
        THEN [ allowed |-> FALSE, remaining |-> 0,
               resetTime |-> current.reset_time ]
        ELSE [ allowed   |-> TRUE,
               remaining |-> call.config.maxRequests
                               - current.request_count - 1,
               resetTime |-> current.reset_time ]
  IN
  /\ call.pc = "decide"
  /\ rate_limits' =
       IF NewWindow(current, call.now)
       THEN Upsert(rate_limits, call.identifier,
                   [ request_count |-> 1,
                     reset_time    |-> call.now + call.config.windowMs ])
       ELSE IF current.request_count >= call.config.maxRequests
       THEN rate_limits
       ELSE IF call.identifier \in DOMAIN rate_limits
       THEN [rate_limits EXCEPT ![call.identifier].request_count =
               current.request_count + 1]
       ELSE rate_limits
  /\ limitCall' = [limitCall EXCEPT ![c].pc = "done",
                                    ![c].result = result,
                                    ![c].status = RateLimitStatus(result),
                                    ![c].next = result.allowed]
  /\ UNCHANGED << limitTxn, rowLock >>
  /\ UNCHANGED << now, oauthVars, mcpVars, apiVars, bootVars >>

\* A mutant of SelectFailure: the failed read throws, as kv.get does, and
\* app.onError answers 500.
SelectFailureThrows(call) ==
  [ call EXCEPT !.pc = "done", !.status = 500, !.storeFailed = TRUE ]

\* Lines 36-42 when the database or the network fails: the query builder
\* resolves to { data: null, error }, and only data is looked at.
SelectFailure(call) ==
  [ call EXCEPT !.pc = "decide", !.current = NoRow, !.storeFailed = TRUE ]

CheckLimitSelectFails(c) ==
  /\ limitCall[c].pc = "select"
  /\ limitCall' = [limitCall EXCEPT ![c] = SelectFailure(limitCall[c])]
  /\ UNCHANGED << rate_limits, limitTxn, rowLock >>
  /\ UNCHANGED << now, oauthVars, mcpVars, apiVars, bootVars >>

\* Lines 44-90 for a row and a configuration: what checkLimit returns.
checkLimitResult(current, config, at) ==
  IF NewWindow(current, at)
  THEN [ allowed   |-> TRUE,
         remaining |-> config.maxRequests - 1,
         resetTime |-> at + config.windowMs ]
  ELSE IF current.request_count >= config.maxRequests
  THEN [ allowed |-> FALSE, remaining |-> 0,
         resetTime |-> current.reset_time ]
  ELSE [ allowed   |-> TRUE,
         remaining |-> config.maxRequests - current.request_count - 1,
         resetTime |-> current.reset_time ]

\* Lines 49-56 and 77-83 when the upsert or the update fails: the result
\* of the awaited query is not looked at, and nothing is written.
CheckLimitWriteFails(c) ==
  LET call == limitCall[c]
      result == checkLimitResult(call.current, call.config, call.now)
  IN
  /\ call.pc = "decide"
  /\ NewWindow(call.current, call.now)
       \/ call.current.request_count < call.config.maxRequests
  /\ limitCall' = [limitCall EXCEPT ![c].pc = "done",
                                    ![c].result = result,
                                    ![c].status = RateLimitStatus(result),
                                    ![c].next = result.allowed,
                                    ![c].storeFailed = TRUE]
  /\ UNCHANGED << rate_limits, limitTxn, rowLock >>
  /\ UNCHANGED << now, oauthVars, mcpVars, apiVars, bootVars >>

\* db/cleanup.ts: the janitor deletes the rows whose window is over.
WindowOver(row) == row.reset_time < now

CleanupRateLimits ==
  /\ \A id \in DOMAIN rate_limits :
       WindowOver(rate_limits[id]) => rowLock[id] = 0
  /\ rate_limits' = DeleteWhere(rate_limits, {k \in DOMAIN rate_limits : WindowOver(rate_limits[k])})
  /\ rate_limits' # rate_limits
  /\ UNCHANGED << limitCall, limitTxn, rowLock >>
  /\ UNCHANGED << now, oauthVars, mcpVars, apiVars, bootVars >>

(***************************************************************************)
(* The database function check_rate_limit, one transaction an invocation,  *)
(* at the READ COMMITTED level the database runs it at.  SELECT ... FOR    *)
(* UPDATE locks the row it finds and waits for a row another transaction   *)
(* has locked; it finds and locks nothing when no committed row exists.    *)
(* INSERT ... ON CONFLICT waits for a transaction that has the same key    *)
(* inserted and not committed, and then updates the row that one inserted. *)
(* A row is written in place under its lock: no one reads it until the     *)
(* lock is released at commit.                                             *)
(***************************************************************************)

LimitIdentifiers ==
  { Identifier(h, p) : h \in RateLimitHeaders, p \in RateLimitedPaths }

IdleTxn ==
  [ pc |-> "idle", p_identifier |-> NoValue, p_max_requests |-> 0,
    p_window_ms |-> 0, v_now |-> 0, found |-> FALSE, v_count |-> 0,
    v_reset_time |-> 0, inserted |-> FALSE, allowed |-> FALSE,
    request_count |-> 0, reset_time |-> 0 ]

\* Line 12: NOW() is the time the transaction started.
TxnBegin(t, p_identifier, config) ==
  /\ FirstIdle(limitTxn, t)
  /\ limitTxn' = [limitTxn EXCEPT ![t] =
       [ IdleTxn EXCEPT !.pc = "select",
                        !.p_identifier = p_identifier,
                        !.p_max_requests = config.maxRequests,
                        !.p_window_ms = config.windowMs,
                        !.v_now = now ]]
  /\ UNCHANGED << rate_limits, limitCall, rowLock >>
  /\ UNCHANGED << now, oauthVars, mcpVars, apiVars, bootVars >>

\* Lines 17-21.
TxnSelectForUpdate(t) ==
  LET txn == limitTxn[t]
      id == txn.p_identifier
  IN
  /\ txn.pc = "select"
  /\ IF id \in DOMAIN rate_limits
     THEN /\ rowLock[id] \in {0, t}
          /\ rowLock' = [rowLock EXCEPT ![id] = t]
          /\ limitTxn' = [limitTxn EXCEPT ![t].pc = "write",
               ![t].found = TRUE,
               ![t].v_count = rate_limits[id].request_count,
               ![t].v_reset_time = rate_limits[id].reset_time]
     ELSE /\ limitTxn' = [limitTxn EXCEPT ![t].pc = "write",
                                          ![t].found = FALSE]
          /\ UNCHANGED rowLock
  /\ UNCHANGED << rate_limits, limitCall >>
  /\ UNCHANGED << now, oauthVars, mcpVars, apiVars, bootVars >>

\* Lines 23-42.
TxnWrite(t) ==
  LET txn == limitTxn[t]
      id == txn.p_identifier
      v_reset_time == txn.v_now + txn.p_window_ms
      row == [ request_count |-> 1, reset_time |-> v_reset_time ]
  IN
  /\ txn.pc = "write"
  /\ IF ~txn.found \/ txn.v_reset_time < txn.v_now
     THEN /\ rowLock[id] \in {0, t}
          /\ rowLock' = [rowLock EXCEPT ![id] = t]
          /\ IF id \in DOMAIN rate_limits
             THEN /\ rate_limits' = [rate_limits EXCEPT ![id] = row]
                  /\ limitTxn' = [limitTxn EXCEPT ![t].pc = "commit",
                       ![t].allowed = TRUE,
                       ![t].request_count = 1,
                       ![t].reset_time = v_reset_time]
             ELSE /\ UNCHANGED rate_limits
                  /\ limitTxn' = [limitTxn EXCEPT ![t].pc = "commit",
                       ![t].inserted = TRUE,
                       ![t].allowed = TRUE,
                       ![t].request_count = 1,
                       ![t].reset_time = v_reset_time]
     ELSE IF txn.v_count >= txn.p_max_requests
     THEN /\ limitTxn' = [limitTxn EXCEPT ![t].pc = "commit",
               ![t].allowed = FALSE,
               ![t].request_count = txn.v_count,
               ![t].reset_time = txn.v_reset_time]
          /\ UNCHANGED << rate_limits, rowLock >>
     ELSE /\ rate_limits' = [rate_limits EXCEPT ![id].request_count =
                               rate_limits[id].request_count + 1]
          /\ limitTxn' = [limitTxn EXCEPT ![t].pc = "commit",
               ![t].allowed = TRUE,
               ![t].request_count = txn.v_count + 1,
               ![t].reset_time = txn.v_reset_time]
          /\ UNCHANGED rowLock
  /\ UNCHANGED limitCall
  /\ UNCHANGED << now, oauthVars, mcpVars, apiVars, bootVars >>

\* The transaction commits: the row it inserted becomes visible, its lock is
\* released and the caller gets the result.
TxnCommit(t) ==
  LET txn == limitTxn[t]
      id == txn.p_identifier
  IN
  /\ txn.pc = "commit"
  /\ rate_limits' =
       IF txn.inserted
       THEN Upsert(rate_limits, id, [ request_count |-> 1,
                                      reset_time    |-> txn.reset_time ])
       ELSE rate_limits
  /\ rowLock' = [rowLock EXCEPT ![id] = IF rowLock[id] = t THEN 0 ELSE @]
  /\ limitTxn' = [limitTxn EXCEPT ![t].pc = "done"]
  /\ UNCHANGED limitCall
  /\ UNCHANGED << now, oauthVars, mcpVars, apiVars, bootVars >>

(***************************************************************************)
(* The /mcp endpoint: HonoSSETransport, SessionManager, handleMcpGet and   *)
(* handleMcpPost, which run behind authenticateBearer, and the sweep.      *)
(***************************************************************************)

\* c.get("accessToken"): the bearer tokens authenticateBearer lets through.
BearerTokens == {"token-A", "token-B"}

\* A Mcp-Session-Id header that no session was ever given.
ClientChosenId == "client-chosen-id"

McpSessionHeaders == DOMAIN sessions \cup {ClientChosenId, NoValue}

\* A JSON value with its typeof.
Undefined == [ type |-> "undefined", v |-> "" ]

JsonString(str) == [ type |-> "string", v |-> str ]

JsonNumber(digits) == [ type |-> "number", v |-> digits ]

NoMessage ==
  [ jsonrpc |-> Undefined, method |-> Undefined, id |-> Undefined,
    result |-> Undefined, error |-> Undefined ]

PingRequest ==
  [ NoMessage EXCEPT !.jsonrpc = JsonString("2.0"),
                     !.method = JsonString("ping"),
                     !.id = JsonNumber("1") ]

ResultWithoutId ==
  [ NoMessage EXCEPT !.jsonrpc = JsonString("2.0"),
                     !.result = JsonString("pong") ]

\* The bodies of the POST requests: one that is no JSON, and messages.
McpBodies ==
  { [ parses |-> FALSE, message |-> NoMessage ],
    [ parses |-> TRUE, message |-> PingRequest ],
    [ parses |-> TRUE, message |-> ResultWithoutId ] }

\* mcp-endpoints.ts, lines 13-45.
isValidJsonRpcMessage(msg) ==
  IF msg.jsonrpc # JsonString("2.0") THEN FALSE
  ELSE IF msg.method.type # "undefined"
       THEN IF msg.method.type # "string" THEN FALSE
            ELSE IF /\ msg.id.type # "undefined"
                    /\ msg.id.type \notin {"null", "string", "number"}
                 THEN FALSE
            ELSE TRUE
  ELSE IF msg.id.type # "undefined"
          /\ (msg.result.type # "undefined" \/ msg.error.type # "undefined")
       THEN TRUE
  ELSE FALSE

\* A HonoSSETransport, and with it the McpServer connected to it, whose
\* tools are registered with the bearer token of the request that made it.
NewTransport(mcpAccessToken) ==
  [ _closed |-> FALSE, server |-> mcpAccessToken ]

\* A mutant of close: the transport stays open.
closeLeavesOpen(transport) == transport

\* HonoSSETransport.close.
close(transport) == [ transport EXCEPT !._closed = TRUE ]

\* HonoSSETransport.send: what a push on the transport comes to.
send(transport) ==
  IF transport._closed THEN "Error: Transport is closed" ELSE "written"

\* HonoSSETransport.handleIncomingMessage: what the handler has received
\* after it.
handleIncomingMessage(transport, received, message) ==
  IF transport._closed THEN received ELSE Append(received, message)

NoMcpSession ==
  [ found |-> FALSE, transport |-> 0, mcpToken |-> NoValue ]

\* SessionManager.createSession, as the handlers call it: the entry of the
\* session id is overwritten.  createdAt, which nothing reads, is left out.
sessionManager_createSession(map, sessionId, transport, mcpToken) ==
  Upsert(map, sessionId,
         [ transport    |-> transport,
           sessionId    |-> sessionId,
           lastActivity |-> now,
           mcpToken     |-> mcpToken ])

\* SessionManager.getSession: the session, and the table with the
\* session's lastActivity set to now.
sessionManager_getSession(map, sessionId) ==
  IF sessionId \in DOMAIN map
  THEN [ session  |-> [ found     |-> TRUE,
                        transport |-> map[sessionId].transport,
                        mcpToken  |-> map[sessionId].mcpToken ],
         sessions |-> [map EXCEPT ![sessionId].lastActivity = now] ]
  ELSE [ session |-> NoMcpSession, sessions |-> map ]

\* SessionManager.deleteSession: the transport of the entry is closed and
\* the entry deleted.
sessionManager_deleteSession(map, trs, sessionId) ==
  IF sessionId \in DOMAIN map
  THEN [ sessions   |-> DeleteKey(map, sessionId),
         transports |-> [trs EXCEPT ![map[sessionId].transport] = close(@)] ]
  ELSE [ sessions |-> map, transports |-> trs ]

\* A mutant of IdleTooLong: the window is ten minutes longer.
IdleTooLongLater(session, at) ==
  at - session.lastActivity > SESSION_TIMEOUT + 1

\* Line 465 of SessionManager.cleanup.
IdleTooLong(session, at) == at - session.lastActivity > SESSION_TIMEOUT

\* A mutant of TokenMatches: every bearer token owns every session.
TokenMatchesAnyToken(session, mcpToken) == TRUE

\* Lines 61 and 304: the session is the bearer's.
TokenMatches(session, mcpToken) == session.mcpToken = mcpToken

NoMcpFacts ==
  [ named |-> FALSE, owner |-> FALSE, touched |-> FALSE,
    delivered |-> FALSE, forwarded |-> FALSE ]

NoMcpDone ==
  [ op |-> "none", status |-> 0, error |-> "", sessionId |-> NoValue,
    at |-> 0, facts |-> NoMcpFacts, reaped |-> {} ]

\* What a step did to the session that sessionId named before it: whether
\* its transport was closed, or its entry removed or given another one.
ChannelTouched(sessionId) ==
  /\ sessionId \in DOMAIN sessions
  /\ \/ sessionId \notin DOMAIN sessions'
     \/ sessions'[sessionId].transport # sessions[sessionId].transport
     \/ transports'[sessions[sessionId].transport]._closed
          # transports[sessions[sessionId].transport]._closed

McpFacts(sessionId, mcpToken, forwarded) ==
  [ named     |-> sessionId \in DOMAIN sessions,
    owner     |-> /\ sessionId \in DOMAIN sessions
                  /\ sessions[sessionId].mcpToken = mcpToken,
    touched   |-> ChannelTouched(sessionId),
    delivered |-> delivered' # delivered,
    forwarded |-> forwarded ]

McpAnswer(op, status, error, sessionId, facts) ==
  [ NoMcpDone EXCEPT !.op = op, !.status = status, !.error = error,
                     !.sessionId = sessionId, !.facts = facts ]

NoMcpBody == [ parses |-> FALSE, message |-> NoMessage ]

\* An event stream: heartbeat says whether its interval timer is set,
\* broken whether writes to its writer fail because the peer is gone, pings
\* how many heartbeats were written to it and failed whether the write of a
\* heartbeat has failed.
IdleMcpGet ==
  [ pc |-> "idle", sessionId |-> NoValue, mcpAccessToken |-> NoValue,
    transport |-> 0, replaced |-> 0, initial |-> NoMessage,
    method |-> "GET", body |-> NoMcpBody,
    heartbeat |-> FALSE, broken |-> FALSE, pings |-> 0, failed |-> FALSE ]

\* setInterval(..., 15000) and clearInterval(heartbeat) of a stream.
setInterval(stream) == [ stream EXCEPT !.heartbeat = TRUE ]

\* A mutant of clearInterval: the timer stays set.
clearIntervalLeavesTimer(stream) == stream

clearInterval(stream) == [ stream EXCEPT !.heartbeat = FALSE ]

IdleMcpPost ==
  [ pc |-> "idle", sessionId |-> NoValue, mcpToken |-> NoValue,
    transport |-> 0, body |-> NoMcpBody ]

\* A request that authenticateBearer has let through and whose handler has
\* not run yet: what next() will find in the context and the request.
PassedGet(method, header, accessToken, body) ==
  [ IdleMcpGet EXCEPT !.pc = "next", !.method = method,
                      !.sessionId = header, !.mcpAccessToken = accessToken,
                      !.body = body ]

PassedPost(header, accessToken, body) ==
  [ IdleMcpPost EXCEPT !.pc = "next", !.sessionId = header,
                       !.mcpToken = accessToken, !.body = body ]

\* handleMcpGet, lines 52-72, and lines 74-173 when no session has the id:
\* the transport is made, the server is connected to it and the event
\* stream is returned.  When the bearer's own session has the id, its
\* transport is closed and the handler waits (line 70).
HandleMcpGet(g, header, mcpAccessToken) ==
  LET sessionId == IF Falsy(header) THEN randomUUID ELSE header
      got == sessionManager_getSession(sessions, sessionId)
      existingSession == got.session
  IN
  /\ \/ FirstIdle(mcpGet, g)
     \/ mcpGet[g] = PassedGet("GET", header, mcpAccessToken, NoMcpBody)
  /\ Falsy(header) => uuid < MaxMcpGets
  /\ uuid' = IF Falsy(header) THEN uuid + 1 ELSE uuid
  /\ sessions' = got.sessions
  /\ IF existingSession.found
        /\ ~TokenMatches(existingSession, mcpAccessToken)
     THEN /\ UNCHANGED transports
          /\ mcpGet' = [mcpGet EXCEPT ![g] = IdleMcpGet]
     ELSE IF existingSession.found
     THEN /\ transports' = [transports EXCEPT
                              ![existingSession.transport] = close(@)]
          /\ mcpGet' = [mcpGet EXCEPT ![g] =
               [ IdleMcpGet EXCEPT !.pc = "delete",
                                   !.sessionId = sessionId,
                                   !.mcpAccessToken = mcpAccessToken,
                                   !.replaced = existingSession.transport ]]
     ELSE /\ transports' = Append(transports, NewTransport(mcpAccessToken))
          /\ mcpGet' = [mcpGet EXCEPT ![g] =
               [ IdleMcpGet EXCEPT !.pc = "connect",
                                   !.sessionId = sessionId,
                                   !.mcpAccessToken = mcpAccessToken,
                                   !.transport = Len(transports) + 1 ]]
  /\ delivered' = IF Len(transports') > Len(transports)
                  THEN Append(delivered, <<>>)
                  ELSE delivered
  /\ mcpDone' =
       IF existingSession.found
          /\ ~TokenMatches(existingSession, mcpAccessToken)
       THEN McpAnswer("GET", 403, "forbidden", sessionId,
                      McpFacts(sessionId, mcpAccessToken, FALSE))
       ELSE IF existingSession.found
       THEN mcpDone
       ELSE McpAnswer("GET", 200, "", sessionId,
                      McpFacts(sessionId, mcpAccessToken, FALSE))
  /\ UNCHANGED mcpPost
  /\ UNCHANGED << registered_clients, oauth_sessions, auth_codes, mcp_tokens,
                  callbackReq, tokenReq, resp, handed, minted >>
  /\ UNCHANGED << now, flows, entropy, limitVars, apiVars, bootVars >>

\* handleMcpGet, lines 71-173, after the wait of line 70: the entry of the
\* session id is deleted, the transport is made, the server is connected to
\* it and the event stream is returned.
HandleMcpGetReplace(g) ==
  LET get == mcpGet[g]
      deleted == sessionManager_deleteSession(sessions, transports,
                                              get.sessionId)
  IN
  /\ get.pc = "delete"
  /\ sessions' = deleted.sessions
  /\ transports' = Append(deleted.transports,
                          NewTransport(get.mcpAccessToken))
  /\ delivered' = Append(delivered, <<>>)
  /\ mcpGet' = [mcpGet EXCEPT ![g].pc = "connect",
                              ![g].transport = Len(transports) + 1]
  /\ mcpDone' = McpAnswer("GET", 200, "", get.sessionId,
                          [ NoMcpFacts EXCEPT !.named = TRUE,
                                              !.owner = TRUE,
                                              !.touched = TRUE ])
  /\ UNCHANGED mcpPost
  /\ UNCHANGED << now, oauthVars, limitVars, apiVars, bootVars >>

\* handleMcpPost, lines 183-291: a POST without a session id opens a session
\* and its event stream.
HandleMcpPostInitial(g, mcpToken, body) ==
  LET sessionId == randomUUID IN
  /\ \/ FirstIdle(mcpGet, g)
     \/ mcpGet[g] = PassedGet("POST", NoValue, mcpToken, body)
  /\ uuid < MaxMcpGets
  /\ uuid' = uuid + 1
  /\ IF body.parses /\ isValidJsonRpcMessage(body.message)
     THEN /\ transports' = Append(transports, NewTransport(mcpToken))
          /\ delivered' = Append(delivered, <<>>)
          /\ mcpGet' = [mcpGet EXCEPT ![g] =
               [ IdleMcpGet EXCEPT !.pc = "connect",
                                   !.sessionId = sessionId,
                                   !.mcpAccessToken = mcpToken,
                                   !.transport = Len(transports) + 1,
                                   !.initial = body.message ]]
          /\ mcpDone' = McpAnswer("POST", 200, "", sessionId, NoMcpFacts)
     ELSE /\ UNCHANGED << transports, delivered >>
          /\ mcpGet' = [mcpGet EXCEPT ![g] = IdleMcpGet]
          /\ mcpDone' =
               IF body.parses
               THEN McpAnswer("POST", 400, "invalid_request", sessionId,
                              NoMcpFacts)
               ELSE McpAnswer("POST", 500, "internal_server_error",
                              sessionId, NoMcpFacts)
  /\ UNCHANGED << sessions, mcpPost >>
  /\ UNCHANGED << registered_clients, oauth_sessions, auth_codes, mcp_tokens,
                  callbackReq, tokenReq, resp, handed, minted >>
  /\ UNCHANGED << now, flows, entropy, limitVars, apiVars, bootVars >>

\* Lines 123-148 and 244-272: the server is connected, the session is put
\* in the table, the message of an initial POST is handed to the transport
\* and the abort listeners are registered.
McpConnected(g) ==
  LET get == mcpGet[g] IN
  /\ get.pc = "connect"
  /\ sessions' = sessionManager_createSession(sessions, get.sessionId,
                                              get.transport,
                                              get.mcpAccessToken)
  /\ delivered' =
       IF get.initial # NoMessage
       THEN [delivered EXCEPT ![get.transport] =
               handleIncomingMessage(transports[get.transport], @,
                 [ message |-> get.initial, from |-> get.mcpAccessToken ])]
       ELSE delivered
  /\ mcpGet' = [mcpGet EXCEPT ![g] = setInterval([ @ EXCEPT !.pc = "open" ])]
  /\ UNCHANGED << transports, mcpPost, mcpDone >>
  /\ UNCHANGED << now, oauthVars, limitVars, apiVars, bootVars >>

\* Lines 130-133 and 145-148: the client has gone, and the listeners delete
\* the session that has the session id.
Abort(g) ==
  LET get == mcpGet[g]
      deleted == sessionManager_deleteSession(sessions, transports,
                                              get.sessionId)
  IN
  /\ get.pc = "open"
  /\ sessions' = deleted.sessions
  /\ transports' = deleted.transports
  /\ mcpGet' = [mcpGet EXCEPT ![g] = clearInterval([ @ EXCEPT !.pc = "done" ])]
  /\ UNCHANGED << mcpPost, delivered, mcpDone >>
  /\ UNCHANGED << now, oauthVars, limitVars, apiVars, bootVars >>

\* writeSSE, lines 79-89 and 201-210: the two writes in a try whose catch
\* is empty; it does not throw.
writeSSE(writable) == [ threw |-> FALSE, written |-> writable ]

\* The callback of the heartbeat timer, lines 136-142 and 260-266: a ping
\* is written; the timer is cleared when writeSSE throws.
Heartbeat(g) ==
  LET stream == mcpGet[g]
      wrote == writeSSE(~stream.broken /\ ~transports[stream.transport]._closed)
      counted == [ stream EXCEPT
                     !.pings = IF wrote.written THEN @ + 1 ELSE @,
                     !.failed = @ \/ ~wrote.written ]
  IN
  /\ stream.heartbeat
  /\ stream.pings < MaxHeartbeats
  /\ mcpGet' = [mcpGet EXCEPT ![g] =
                  IF wrote.threw THEN clearInterval(counted) ELSE counted]
  /\ UNCHANGED << sessions, transports, mcpPost, delivered, mcpDone >>
  /\ UNCHANGED << now, oauthVars, limitVars, apiVars, bootVars >>

\* HonoSSETransport.send, lines 340-360, as the server calls it to answer a
\* request or to notify the client on an open stream: the message is
\* written to the stream; the table of sessions is not within its reach.
TransportSend(g) ==
  LET stream == mcpGet[g]
      sent == IF stream.broken THEN "Error: write failed"
              ELSE send(transports[stream.transport])
  IN
  /\ stream.pc = "open"
  /\ mcpDone' = [ NoMcpDone EXCEPT !.op = "send", !.at = now,
                    !.sessionId = stream.sessionId,
                    !.error = IF sent = "written" THEN "" ELSE sent ]
  /\ UNCHANGED << sessions, transports, mcpGet, mcpPost, delivered >>
  /\ UNCHANGED << now, oauthVars, limitVars, apiVars, bootVars >>

\* The peer of an open stream is gone and writes to its writer fail from
\* now on; the abort event of the request has not been delivered.
StreamBreaks(g) ==
  /\ mcpGet[g].pc = "open"
  /\ ~mcpGet[g].broken
  /\ mcpGet' = [mcpGet EXCEPT ![g].broken = TRUE]
  /\ UNCHANGED << sessions, transports, mcpPost, delivered, mcpDone >>
  /\ UNCHANGED << now, oauthVars, limitVars, apiVars, bootVars >>

\* handleMcpPost, lines 293-313: a POST that names a session.
HandleMcpPost(p, header, mcpToken, body) ==
  LET got == sessionManager_getSession(sessions, header)
      session == got.session
  IN
  /\ ~Falsy(header)
  /\ \/ FirstIdle(mcpPost, p)
     \/ mcpPost[p] = PassedPost(header, mcpToken, body)
  /\ sessions' = got.sessions
  /\ UNCHANGED << transports, mcpGet, delivered >>
  /\ IF ~session.found
     THEN /\ mcpDone' = McpAnswer("POST", 404, "invalid_session", header,
                                  McpFacts(header, mcpToken, FALSE))
          /\ mcpPost' = [mcpPost EXCEPT ![p] = IdleMcpPost]
     ELSE IF ~TokenMatches(session, mcpToken)
     THEN /\ mcpDone' = McpAnswer("POST", 403, "forbidden", header,
                                  McpFacts(header, mcpToken, FALSE))
          /\ mcpPost' = [mcpPost EXCEPT ![p] = IdleMcpPost]
     ELSE /\ mcpPost' = [mcpPost EXCEPT ![p] =
               [ pc |-> "json", sessionId |-> header, mcpToken |-> mcpToken,
                 transport |-> session.transport, body |-> body ]]
          /\ UNCHANGED mcpDone
  /\ UNCHANGED << now, oauthVars, limitVars, apiVars, bootVars >>

\* handleMcpPost, lines 313-333: the body is read, and a valid message is
\* handed to the transport of the session found before.
HandleMcpPostMessage(p) ==
  LET post == mcpPost[p]
      valid == post.body.parses /\ isValidJsonRpcMessage(post.body.message)
  IN
  /\ post.pc = "json"
  /\ delivered' =
       IF valid
       THEN [delivered EXCEPT ![post.transport] =
               handleIncomingMessage(transports[post.transport], @,
                 [ message |-> post.body.message, from |-> post.mcpToken ])]
       ELSE delivered
  /\ mcpPost' = [mcpPost EXCEPT ![p].pc = "done"]
  /\ mcpDone' =
       IF ~post.body.parses
       THEN McpAnswer("POST", 500, "internal_error", post.sessionId,
                      [ NoMcpFacts EXCEPT !.named = TRUE, !.owner = TRUE ])
       ELSE IF ~valid
       THEN McpAnswer("POST", 400, "invalid_request", post.sessionId,
                      [ NoMcpFacts EXCEPT !.named = TRUE, !.owner = TRUE ])
       ELSE McpAnswer("POST", 202, "", post.sessionId,
                      [ NoMcpFacts EXCEPT !.named = TRUE, !.owner = TRUE,
                          !.delivered = delivered' # delivered ])
  /\ UNCHANGED << sessions, transports, mcpGet >>
  /\ UNCHANGED << now, oauthVars, limitVars, apiVars, bootVars >>

\* server/app.ts, handleMcp: the handler of the revision that leaves the
\* protocol to the SDK's transport.  A request of a session's owner is
\* forwarded to that transport; what the transport does with it, and with
\* a POST that names no session, is the SDK's.
McpMethods == {"GET", "POST"}

HandleMcp(method, header, mcpToken) ==
  LET named == ~Falsy(header)
      found == header \in DOMAIN sessions
  IN
  /\ named \/ method # "POST"
  /\ UNCHANGED << sessions, transports, mcpGet, mcpPost, delivered >>
  /\ mcpDone' =
       IF named /\ ~found
       THEN McpAnswer(method, 404, "invalid_session", header,
                      McpFacts(header, mcpToken, FALSE))
       ELSE IF found /\ ~TokenMatches(sessions[header], mcpToken)
       THEN McpAnswer(method, 403, "forbidden", header,
                      McpFacts(header, mcpToken, FALSE))
       ELSE IF found
       THEN McpAnswer(method, 0, "", header,
                      McpFacts(header, mcpToken, TRUE))
       ELSE McpAnswer(method, 400, "invalid_request", header,
                      McpFacts(header, mcpToken, FALSE))
  /\ mcpDone' # mcpDone
  /\ UNCHANGED << now, oauthVars, limitVars, apiVars, bootVars >>

\* SessionManager.cleanup, which startCleanup runs every minute.
Cleanup ==
  LET stale == { sessionId \in DOMAIN sessions :
                   IdleTooLong(sessions[sessionId], now) }
      reaped == { sessions[sessionId].transport : sessionId \in stale }
  IN
  /\ sessions' = [ sessionId \in DOMAIN sessions \ stale |->
                     sessions[sessionId] ]
  /\ transports' = [ i \in DOMAIN transports |->
                       IF i \in reaped THEN close(transports[i])
                       ELSE transports[i] ]
  /\ mcpDone' = [ NoMcpDone EXCEPT !.op = "cleanup", !.at = now,
                                   !.reaped = reaped ]
  /\ UNCHANGED << mcpGet, mcpPost, delivered >>
  /\ UNCHANGED << now, oauthVars, limitVars, apiVars, bootVars >>

(***************************************************************************)
(* TokenStore as its callers use it: storeTokens, getTokens, isValid       *)
(* behind authenticateBearer, and updateTokens.  The rows of mcp_tokens    *)
(* are also within reach of whoever can write to the database.             *)
(***************************************************************************)

\* A high surrogate without its partner.
LoneSurrogate == <<55357>>

\* A string is well formed when every surrogate stands in a pair.
RECURSIVE IsWellFormed(_)
IsWellFormed(str) ==
  IF Len(str) = 0 THEN TRUE
  ELSE IF IsHighSurrogate(str[1])
  THEN Len(str) > 1 /\ IsLowSurrogate(str[2]) /\ IsWellFormed(Tail(Tail(str)))
  ELSE ~IsLowSurrogate(str[1]) /\ IsWellFormed(Tail(str))

\* body.expires_in values of the provider, in seconds: thirteen minutes,
\* fifteen minutes and three hours.
ProviderLifetimes == {780, 900, 10800}

\* What getTokens returns: null, or the token data; or it throws.
NoTokenData ==
  [ found |-> FALSE, threw |-> FALSE, withingsAccessToken |-> <<>>,
    withingsRefreshToken |-> <<>>, withingsUserId |-> "", expiresAt |-> 0 ]

TokenData(access, refresh, userId, expiresAt) ==
  [ found |-> TRUE, threw |-> FALSE, withingsAccessToken |-> access,
    withingsRefreshToken |-> refresh, withingsUserId |-> userId,
    expiresAt |-> expiresAt ]

\* A mutant of getTokens: the SELECT without .gt("expires_at", now).
getTokensIgnoresExpiry(mcpToken) ==
  IF mcpToken \in DOMAIN mcp_tokens
  THEN LET row == mcp_tokens[mcpToken]
           access == decrypt(row.encrypted_access_token)
           refresh == decrypt(row.encrypted_refresh_token)
       IN IF access.threw \/ refresh.threw
          THEN [ NoTokenData EXCEPT !.threw = TRUE ]
          ELSE TokenData(access.plaintext, refresh.plaintext,
                         row.withings_user_id, row.withings_expires_at)
  ELSE NoTokenData

\* getTokens: the live row of the token, both columns decrypted; an
\* exception of decrypt is not caught.
getTokens(mcpToken) ==
  IF mcpToken \in DOMAIN mcp_tokens /\ mcp_tokens[mcpToken].expires_at > now
  THEN LET row == mcp_tokens[mcpToken]
           access == decrypt(row.encrypted_access_token)
           refresh == decrypt(row.encrypted_refresh_token)
       IN IF access.threw \/ refresh.threw
          THEN [ NoTokenData EXCEPT !.threw = TRUE ]
          ELSE TokenData(access.plaintext, refresh.plaintext,
                         row.withings_user_id, row.withings_expires_at)
  ELSE NoTokenData

\* A mutant of updateTokens: the statement is an upsert.
updateTokensUpserts(tokens, mcpToken, existing, updates) ==
  storeTokens(tokens, mcpToken,
              [ withingsAccessToken  |-> updates.withingsAccessToken,
                withingsRefreshToken |-> updates.withingsRefreshToken,
                withingsUserId       |-> existing.withingsUserId,
                expiresAt            |-> updates.expiresAt ])

\* A mutant of updateTokens: the record's expiry is set anew.
updateTokensRenewsTtl(tokens, mcpToken, existing, updates) ==
  IF mcpToken \in DOMAIN tokens
  THEN [ tokens EXCEPT ![mcpToken] =
           [ encrypted_access_token  |->
               encrypt(updates.withingsAccessToken, entropy),
             encrypted_refresh_token |->
               encrypt(updates.withingsRefreshToken, entropy + 2),
             withings_user_id        |-> existing.withingsUserId,
             withings_expires_at     |-> updates.expiresAt,
             expires_at              |-> now + TTL_MS ] ]
  ELSE tokens

\* A mutant of updateTokens: the refresh token column is left as it was.
updateTokensKeepsRefreshToken(tokens, mcpToken, existing, updates) ==
  IF mcpToken \in DOMAIN tokens
  THEN [ tokens EXCEPT ![mcpToken] =
           [ @ EXCEPT
               !.encrypted_access_token =
                 encrypt(updates.withingsAccessToken, entropy),
               !.withings_user_id = existing.withingsUserId,
               !.withings_expires_at = updates.expiresAt ] ]
  ELSE tokens

\* The UPDATE of updateTokens, lines 92-107: `existing` is what getTokens
\* returned before, `updates` the access token, refresh token and expiry
\* of the caller.  One statement writes the columns of the token's row;
\* where the row is gone it writes nothing.
updateTokens(tokens, mcpToken, existing, updates) ==
  IF mcpToken \in DOMAIN tokens
  THEN [ tokens EXCEPT ![mcpToken] =
           [ @ EXCEPT
               !.encrypted_access_token =
                 encrypt(updates.withingsAccessToken, entropy),
               !.encrypted_refresh_token =
                 encrypt(updates.withingsRefreshToken, entropy + 2),
               !.withings_user_id = existing.withingsUserId,
               !.withings_expires_at = updates.expiresAt ] ]
  ELSE tokens

\* The credential of a token data record: what storeTokens and updateTokens
\* are asked to keep.
Credential(data) ==
  [ withingsAccessToken |-> data.withingsAccessToken,
    withingsRefreshToken |-> data.withingsRefreshToken,
    withingsUserId |-> data.withingsUserId,
    expiresAt |-> data.expiresAt ]

NoVaultDone ==
  [ op |-> "", mcpToken |-> NoValue, status |-> 0, error |-> "",
    next |-> FALSE, result |-> NoTokenData, altered |-> FALSE,
    storeFailed |-> FALSE ]

\* tokenStore.storeTokens(mcpToken, tokenData), as POST /token calls it.
VaultStore(mcpToken, access, refresh, expiresIn) ==
  LET tokenData == TokenData(access, refresh, "withings-user",
                             Date_now + expiresIn * 1000)
  IN
  /\ boot.pc = "serving"
  /\ mcpToken \notin DOMAIN mcp_tokens
  /\ IF getMasterSecretThrows
     THEN /\ vaultDone' = [ NoVaultDone EXCEPT
                              !.op = "storeTokens",
                              !.mcpToken = mcpToken,
                              !.result = [ NoTokenData EXCEPT !.threw = TRUE ] ]
          /\ UNCHANGED << mcp_tokens, entropy, issued >>
     ELSE /\ mcp_tokens' = storeTokens(mcp_tokens, mcpToken, tokenData)
          /\ entropy' = entropy + 4
          /\ issued' =
               Upsert(issued, mcpToken,
                      [ at |-> now, last |-> Credential(tokenData),
                        writes |-> {Credential(tokenData)}, updates |-> 0 ])
          /\ vaultDone' = [ NoVaultDone EXCEPT !.op = "storeTokens",
                                               !.mcpToken = mcpToken ]
  /\ UNCHANGED << now, uuid, registered_clients, oauth_sessions, auth_codes,
                  callbackReq, tokenReq, resp, handed, minted >>
  /\ UNCHANGED << apiCall, apiDone, grants, tampered >>
  /\ UNCHANGED << flows, limitVars, mcpVars, bootVars >>

\* tokenStore.getTokens(mcpToken).
VaultGet(mcpToken) ==
  /\ boot.pc = "serving"
  /\ vaultDone' = [ NoVaultDone EXCEPT
                      !.op = "getTokens",
                      !.mcpToken = mcpToken,
                      !.result = getTokens(mcpToken),
                      !.altered = mcpToken \in tampered ]
  /\ UNCHANGED << now, oauthVars, limitVars, mcpVars, bootVars >>
  /\ UNCHANGED << apiCall, apiDone, grants, tampered, issued >>

\* The characters of a stored ciphertext that are altered: one in the salt,
\* one in the IV, one in the tag and one in the encrypted text.
TamperPositions == {2, 50, 70, 88}

TamperColumns == {"encrypted_access_token", "encrypted_refresh_token"}

\* One character of the base64 text becomes the next of the alphabet.
AlterChar(str, position) ==
  [ str EXCEPT ![position] = Base64Char((Base64Index(@) + 1) % 64) ]

\* Someone with access to the database alters one character of a stored
\* ciphertext.
Tamper(mcpToken, column, position) ==
  /\ mcpToken \in DOMAIN mcp_tokens
  /\ mcpToken \notin tampered
  /\ position <= Len(mcp_tokens[mcpToken][column])
  /\ mcp_tokens[mcpToken][column][position] # "="
  /\ mcp_tokens' =
       [ mcp_tokens EXCEPT ![mcpToken][column] = AlterChar(@, position) ]
  /\ tampered' = tampered \cup {mcpToken}
  /\ UNCHANGED << now, uuid, registered_clients, oauth_sessions, auth_codes,
                  callbackReq, tokenReq, resp, handed, minted, entropy >>
  /\ UNCHANGED << apiCall, apiDone, grants, vaultDone, issued >>
  /\ UNCHANGED << flows, limitVars, mcpVars, bootVars >>

\* The Authorization headers of a request to /mcp: none, or a bearer token.
AuthorizationHeaders == BearerTokens \cup {NoValue}

\* authenticateBearer: 401 without a bearer token, 401 when isValid says
\* no, next() when it says yes; an exception of isValid reaches
\* app.onError, which answers 500.
AuthenticateBearer(token) ==
  LET data == getTokens(token) IN
  /\ boot.pc = "serving"
  /\ vaultDone' =
       IF token = NoValue
       THEN [ NoVaultDone EXCEPT !.op = "authenticateBearer",
                !.status = 401, !.error = "unauthorized" ]
       ELSE IF data.threw
       THEN [ NoVaultDone EXCEPT !.op = "authenticateBearer",
                !.mcpToken = token, !.result = data,
                !.altered = token \in tampered,
                !.status = 500, !.error = "internal_server_error" ]
       ELSE IF ~data.found
       THEN [ NoVaultDone EXCEPT !.op = "authenticateBearer",
                !.mcpToken = token, !.result = data,
                !.altered = token \in tampered,
                !.status = 401, !.error = "invalid_token" ]
       ELSE [ NoVaultDone EXCEPT !.op = "authenticateBearer",
                !.mcpToken = token, !.result = data,
                !.altered = token \in tampered,
                !.next = TRUE ]
  /\ UNCHANGED << now, oauthVars, limitVars, mcpVars, bootVars >>
  /\ UNCHANGED << apiCall, apiDone, grants, tampered, issued >>

(***************************************************************************)
(* /mcp as app.ts mounts it: authenticateBearer runs first and awaits      *)
(* tokenStore.isValid; the handler runs when it calls next().              *)
(***************************************************************************)

\* An Authorization header by its first seven characters and the rest.
NoAuthorization == [ present |-> FALSE, start |-> "", rest |-> "" ]

Authorization(start, rest) ==
  [ present |-> TRUE, start |-> start, rest |-> rest ]

\* No header, one that does not start with "Bearer ", and bearer tokens:
\* one the Vault never held and one it may hold.
McpAuthorizationHeaders ==
  { NoAuthorization,
    Authorization("bearer ", "token-A"),
    Authorization("Bearer ", "token-never-issued"),
    Authorization("Bearer ", "token-A") }

\* tokenStore.deleteToken.
deleteToken(tokens, mcpToken) == DeleteKey(tokens, mcpToken)

\* A mutant of isValid: a stored row is enough.
isValidIfStored(mcpToken) ==
  [ threw |-> FALSE, value |-> mcpToken \in DOMAIN mcp_tokens ]

\* tokenStore.isValid: data !== null, or the exception of getTokens.
isValid(mcpToken) ==
  LET data == getTokens(mcpToken) IN
  [ threw |-> data.threw, value |-> data.found ]

\* authenticateBearer: what it answers, or the token it puts in the
\* context before next().
authenticateBearer(authHeader) ==
  IF \/ ~authHeader.present
     \/ authHeader.start = "" /\ authHeader.rest = ""
     \/ authHeader.start # "Bearer "
  THEN [ next |-> FALSE, status |-> 401, error |-> "unauthorized",
         accessToken |-> NoValue ]
  ELSE LET token == authHeader.rest
           valid == isValid(token)
       IN
       IF valid.threw
       THEN [ next |-> FALSE, status |-> 500,
              error |-> "internal_server_error", accessToken |-> NoValue ]
       ELSE IF ~valid.value
       THEN [ next |-> FALSE, status |-> 401, error |-> "invalid_token",
              accessToken |-> NoValue ]
       ELSE [ next |-> TRUE, status |-> 0, error |-> "",
              accessToken |-> token ]

\* A request to /mcp arrives: the middleware answers it, or lets it
\* through to the handler of its method.
McpAuthenticate(method, authHeader, header, body) ==
  LET verdict == authenticateBearer(authHeader) IN
  /\ boot.pc = "serving"
  /\ method = "GET" => body = NoMcpBody
  /\ IF ~verdict.next
     THEN /\ mcpDone' = McpAnswer(method, verdict.status, verdict.error,
                                  header, NoMcpFacts)
          /\ UNCHANGED << mcpGet, mcpPost >>
     ELSE IF method = "GET" \/ Falsy(header)
     THEN /\ \E g \in DOMAIN mcpGet :
               /\ FirstIdle(mcpGet, g)
               /\ mcpGet' = [mcpGet EXCEPT ![g] =
                    PassedGet(method,
                              IF Falsy(header) THEN NoValue ELSE header,
                              verdict.accessToken, body)]
          /\ UNCHANGED << mcpPost, mcpDone >>
     ELSE /\ \E p \in DOMAIN mcpPost :
               /\ FirstIdle(mcpPost, p)
               /\ mcpPost' = [mcpPost EXCEPT ![p] =
                    PassedPost(header, verdict.accessToken, body)]
          /\ UNCHANGED << mcpGet, mcpDone >>
  /\ UNCHANGED << sessions, transports, delivered >>
  /\ UNCHANGED << now, oauthVars, limitVars, apiVars, bootVars >>

\* next(): handleMcpGet runs for the request let through.
McpGetNext(g) ==
  /\ mcpGet[g].pc = "next"
  /\ mcpGet[g].method = "GET"
  /\ HandleMcpGet(g, mcpGet[g].sessionId, mcpGet[g].mcpAccessToken)

\* next(): handleMcpPost runs for a POST without a session id.
McpPostInitialNext(g) ==
  /\ mcpGet[g].pc = "next"
  /\ mcpGet[g].method = "POST"
  /\ HandleMcpPostInitial(g, mcpGet[g].mcpAccessToken, mcpGet[g].body)

\* next(): handleMcpPost runs for a POST that names a session.
McpPostNext(p) ==
  /\ mcpPost[p].pc = "next"
  /\ HandleMcpPost(p, mcpPost[p].sessionId, mcpPost[p].mcpToken,
                   mcpPost[p].body)

\* POST /token stores the bridge token "token-A", once, in the first
\* minutes.
IssueBridgeToken ==
  /\ "token-A" \notin DOMAIN issued
  /\ now <= MaxTime
  /\ VaultStore("token-A", ProviderAccessToken(0), ProviderRefreshToken(0),
                10800)

\* tokenStore.deleteToken(mcpToken).
VaultDelete(mcpToken) ==
  /\ boot.pc = "serving"
  /\ mcpToken \in DOMAIN mcp_tokens
  /\ mcp_tokens' = deleteToken(mcp_tokens, mcpToken)
  /\ vaultDone' = [ NoVaultDone EXCEPT !.op = "deleteToken",
                                       !.mcpToken = mcpToken ]
  /\ UNCHANGED << now, uuid, registered_clients, oauth_sessions, auth_codes,
                  callbackReq, tokenReq, resp, handed, minted, entropy >>
  /\ UNCHANGED << apiCall, apiDone, grants, tampered, issued >>
  /\ UNCHANGED << flows, limitVars, mcpVars, bootVars >>

\* Thirty days pass: the records of the Vault that exist have expired.
TokenTtlPasses ==
  /\ now < TTL_MS
  /\ now' = now + TTL_MS
  /\ UNCHANGED << oauthVars, limitVars, mcpVars, apiVars, bootVars >>

(***************************************************************************)
(* The lookups when the database cannot be reached.  supabase-js resolves  *)
(* a failed query to { data: null, error }, and each lookup ends in        *)
(* `if (error || !data) return null`.                                      *)
(***************************************************************************)

FailedQuery == [ error |-> TRUE, found |-> FALSE ]

\* What a lookup returns for a query result that carries no row.
RowOrNull(result, row, null) ==
  IF result.error \/ ~result.found THEN null ELSE row

StoreFailed == [ storeFailed |-> TRUE ]

\* GET /authorize, lines 272-298, when the query of getClient fails.
AuthorizeStoreFails(q) ==
  LET registeredClient == RowOrNull(FailedQuery, NoClient, NoClient) IN
  /\ q.responseType = "code"
  /\ ~Falsy(q.redirectUri) /\ ~Falsy(q.state) /\ ~Falsy(q.clientId)
  /\ resp' = IF ~registeredClient.found
             THEN Json("authorize", 400, "invalid_client", StoreFailed)
             ELSE Json("authorize", 500, "server_error", StoreFailed)
  /\ UNCHANGED << now, uuid, registered_clients, oauth_sessions, auth_codes,
                  mcp_tokens, callbackReq, tokenReq, handed, minted >>
  /\ UNCHANGED << flows, entropy, limitVars, mcpVars, apiVars, bootVars >>

\* GET /callback, lines 333-345, when the query of getSession fails.
CallbackStoreFails(q) ==
  LET session == RowOrNull(FailedQuery, NoSession, NoSession) IN
  /\ ~Falsy(q.code) /\ ~Falsy(q.state)
  /\ resp' = IF ~session.found
             THEN Json("callback", 400, "invalid_state", StoreFailed)
             ELSE Json("callback", 500, "server_error", StoreFailed)
  /\ UNCHANGED << now, uuid, registered_clients, oauth_sessions, auth_codes,
                  mcp_tokens, callbackReq, tokenReq, handed, minted >>
  /\ UNCHANGED << flows, entropy, limitVars, mcpVars, apiVars, bootVars >>

\* POST /token, lines 376-392, when the statement of consumeAuthCode
\* fails: nothing is deleted.
TokenStoreFails(q) ==
  LET authCodeData == RowOrNull(FailedQuery, NoAuthCode, NoAuthCode) IN
  /\ q.grantType = "authorization_code"
  /\ resp' = IF ~authCodeData.found
             THEN Json("token", 400, "invalid_grant", StoreFailed)
             ELSE Json("token", 500, "server_error", StoreFailed)
  /\ UNCHANGED << now, uuid, registered_clients, oauth_sessions, auth_codes,
                  mcp_tokens, callbackReq, tokenReq, handed, minted >>
  /\ UNCHANGED << flows, entropy, limitVars, mcpVars, apiVars, bootVars >>

\* authenticateBearer when the query of getTokens fails.
BearerStoreFails(token) ==
  LET data == RowOrNull(FailedQuery, NoTokenData, NoTokenData) IN
  /\ boot.pc = "serving"
  /\ vaultDone' =
       IF ~data.found
       THEN [ NoVaultDone EXCEPT !.op = "authenticateBearer",
                !.mcpToken = token, !.storeFailed = TRUE,
                !.status = 401, !.error = "invalid_token" ]
       ELSE [ NoVaultDone EXCEPT !.op = "authenticateBearer",
                !.mcpToken = token, !.storeFailed = TRUE,
                !.status = 500, !.error = "internal_server_error" ]
  /\ UNCHANGED << now, oauthVars, limitVars, mcpVars, bootVars >>
  /\ UNCHANGED << apiCall, apiDone, grants, tampered, issued >>

(***************************************************************************)
(* makeWithingsRequest and refreshWithingsToken.  Every await of the call  *)
(* is a point where other calls run.                                       *)
(***************************************************************************)

\* What refreshWithingsToken returns.
NoRefreshedTokens ==
  [ accessToken |-> <<>>, refreshToken |-> <<>>, expiresIn |-> 0 ]

IdleApiCall ==
  [ pc |-> "idle", mcpToken |-> NoValue, now |-> 0, first |-> NoTokenData,
    tokenData |-> NoTokenData, existing |-> NoTokenData,
    refreshedTokens |-> NoRefreshedTokens, refreshes |-> 0, writes |-> 0 ]

NoApiDone ==
  [ outcome |-> "", error |-> "", mcpToken |-> NoValue, now |-> 0,
    first |-> NoTokenData, used |-> NoTokenData,
    refreshedTokens |-> NoRefreshedTokens, refreshes |-> 0, writes |-> 0 ]

\* How a call ends: with the provider data request sent, or with an error
\* thrown to the caller.
ApiEnd(call, outcome, error) ==
  [ outcome |-> outcome, error |-> error, mcpToken |-> call.mcpToken,
    now |-> call.now, first |-> call.first, used |-> call.tokenData,
    refreshedTokens |-> call.refreshedTokens,
    refreshes |-> call.refreshes, writes |-> call.writes ]

\* A mutant of isExpiringSoon: only a token already expired counts.
isExpiringSoonOnlyPast(tokenData, at) == tokenData.expiresAt - at < 0

\* Line 121.
isExpiringSoon(tokenData, at) == tokenData.expiresAt - at < EXPIRY_BUFFER_MS

\* Lines 113-124: the credential is read and its expiry looked at.
ApiBegin(a, mcpToken) ==
  LET tokenData == getTokens(mcpToken)
      call == [ IdleApiCall EXCEPT !.mcpToken = mcpToken,
                                   !.now = Date_now,
                                   !.first = tokenData,
                                   !.tokenData = tokenData ]
  IN
  /\ FirstIdle(apiCall, a)
  /\ IF tokenData.threw
     THEN /\ apiDone' = ApiEnd(call, "error", "decrypt failed")
          /\ UNCHANGED apiCall
     ELSE IF ~tokenData.found
     THEN /\ apiDone' = ApiEnd(call, "error", "Invalid or expired token")
          /\ UNCHANGED apiCall
     ELSE /\ apiCall' =
               [ apiCall EXCEPT ![a] =
                   [ call EXCEPT !.pc = IF isExpiringSoon(tokenData, Date_now)
                                        THEN "refresh" ELSE "fetch" ] ]
          /\ UNCHANGED apiDone
  /\ UNCHANGED << now, oauthVars, limitVars, mcpVars, bootVars >>
  /\ UNCHANGED << grants, vaultDone, tampered, issued >>

\* A mutant of ApiRefreshFailed: the call goes on with the token it has.
ApiRefreshFailedGoesOn(a) ==
  /\ apiCall' = [ apiCall EXCEPT ![a].pc = "fetch",
                                 ![a].refreshes = @ + 1 ]
  /\ UNCHANGED apiDone

\* Lines 148-151 after refreshWithingsToken threw.
ApiRefreshFailed(a) ==
  /\ apiDone' = ApiEnd([ apiCall[a] EXCEPT !.refreshes = @ + 1 ],
                       "error", "Failed to refresh access token")
  /\ apiCall' = [ apiCall EXCEPT ![a] = IdleApiCall ]

\* Lines 126-132 and refreshWithingsToken: the refresh-token grant.  The
\* provider answers with a new token pair, with another status, or not at
\* all; the last two throw.
ApiRefresh(a, outcome, expiresIn) ==
  LET call == apiCall[a] IN
  /\ call.pc = "refresh"
  /\ IF outcome = "ok"
     THEN /\ grants < MaxGrants
          /\ grants' = grants + 1
          /\ apiCall' =
               [ apiCall EXCEPT ![a] =
                   [ call EXCEPT
                       !.pc = "updateRead",
                       !.refreshes = @ + 1,
                       !.refreshedTokens =
                         [ accessToken |-> ProviderAccessToken(grants + 1),
                           refreshToken |-> ProviderRefreshToken(grants + 1),
                           expiresIn |-> expiresIn ] ] ]
          /\ UNCHANGED apiDone
     ELSE /\ ApiRefreshFailed(a)
          /\ UNCHANGED grants
  /\ UNCHANGED << now, oauthVars, limitVars, mcpVars, bootVars >>
  /\ UNCHANGED << vaultDone, tampered, issued >>

\* updateTokens, lines 89-90: the record is read first.
ApiUpdateRead(a) ==
  LET call == apiCall[a]
      existing == getTokens(call.mcpToken)
  IN
  /\ call.pc = "updateRead"
  /\ IF existing.threw \/ ~existing.found
     THEN /\ apiDone' = ApiEnd(call, "error",
                               "Failed to refresh access token")
          /\ apiCall' = [ apiCall EXCEPT ![a] = IdleApiCall ]
     ELSE /\ apiCall' = [ apiCall EXCEPT ![a].pc = "updateWrite",
                                         ![a].existing = existing ]
          /\ UNCHANGED apiDone
  /\ UNCHANGED << now, oauthVars, limitVars, mcpVars, bootVars >>
  /\ UNCHANGED << grants, vaultDone, tampered, issued >>

\* updateTokens, lines 92-111, called with the new access token, the new
\* refresh token and the expiry counted from the time line 120 read.
ApiUpdateWrite(a) ==
  LET call == apiCall[a]
      updates == [ withingsAccessToken |-> call.refreshedTokens.accessToken,
                   withingsRefreshToken |-> call.refreshedTokens.refreshToken,
                   withingsUserId |-> NoValue,
                   expiresAt |->
                     call.now + call.refreshedTokens.expiresIn * 1000 ]
      written == Credential([ updates EXCEPT
                   !.withingsUserId = call.existing.withingsUserId ])
  IN
  /\ call.pc = "updateWrite"
  /\ mcp_tokens' = updateTokens(mcp_tokens, call.mcpToken, call.existing,
                                updates)
  /\ entropy' = entropy + 4
  /\ issued' =
       IF call.mcpToken \in DOMAIN mcp_tokens
       THEN [ issued EXCEPT ![call.mcpToken].last = written,
                            ![call.mcpToken].writes = @ \cup {written},
                            ![call.mcpToken].updates = @ + 1 ]
       ELSE issued
  /\ apiCall' = [ apiCall EXCEPT ![a].pc = "reread", ![a].writes = @ + 1 ]
  /\ UNCHANGED << now, uuid, registered_clients, oauth_sessions, auth_codes,
                  callbackReq, tokenReq, resp, handed, minted >>
  /\ UNCHANGED << apiDone, grants, vaultDone, tampered >>
  /\ UNCHANGED << flows, limitVars, mcpVars, bootVars >>

\* Lines 141-145: the record is read again.
ApiReread(a) ==
  LET call == apiCall[a]
      tokenData == getTokens(call.mcpToken)
  IN
  /\ call.pc = "reread"
  /\ IF tokenData.threw \/ ~tokenData.found
     THEN /\ apiDone' = ApiEnd(call, "error",
                               "Failed to refresh access token")
          /\ apiCall' = [ apiCall EXCEPT ![a] = IdleApiCall ]
     ELSE /\ apiCall' = [ apiCall EXCEPT ![a].pc = "fetch",
                                         ![a].tokenData = tokenData ]
          /\ UNCHANGED apiDone
  /\ UNCHANGED << now, oauthVars, limitVars, mcpVars, bootVars >>
  /\ UNCHANGED << grants, vaultDone, tampered, issued >>

\* Lines 154-168: the data request goes to the provider with the access
\* token of tokenData.
ApiFetch(a) ==
  LET call == apiCall[a] IN
  /\ call.pc = "fetch"
  /\ apiDone' = ApiEnd(call, "sent", "")
  /\ apiCall' = [ apiCall EXCEPT ![a] = IdleApiCall ]
  /\ UNCHANGED << now, oauthVars, limitVars, mcpVars, bootVars >>
  /\ UNCHANGED << grants, vaultDone, tampered, issued >>

(***************************************************************************)
(* index: start-up.  The module runs its statements in order; an exception *)
(* ends the process before the app is exported.                            *)
(***************************************************************************)

\* process.env as start-up and utils/encryption read it.
Environments ==
  [ SUPABASE : BOOLEAN, WITHINGS : BOOLEAN, ENCRYPTION_SECRET : Secrets ]

\* The environment of a deployment set up as the README says.
ConfiguredEnvironment ==
  [ SUPABASE |-> TRUE, WITHINGS |-> TRUE, ENCRYPTION_SECRET |-> GoodSecret ]

Started == [ pc |-> "initSupabase", error |-> "" ]

Serving == [ pc |-> "serving", error |-> "" ]

BootFailed(error) == [ pc |-> "failed", error |-> error ]

\* Lines 15-21: cleanupExpiredRecords, scheduleCleanup, tokenStore.init,
\* initOAuthStore, initRateLimiter.  None of them encrypts or decrypts.
InitStores == [ pc |-> "requiredEnvVars", error |-> "" ]

\* Line 12: initSupabase throws without its environment variables.
BootInitSupabase ==
  /\ boot.pc = "initSupabase"
  /\ boot' = IF env.SUPABASE
             THEN [ pc |-> "initStores", error |-> "" ]
             ELSE BootFailed("Missing Supabase environment variables")
  /\ UNCHANGED << now, oauthVars, limitVars, mcpVars, apiVars, env >>

BootInitStores ==
  /\ boot.pc = "initStores"
  /\ boot' = InitStores
  /\ UNCHANGED << now, oauthVars, limitVars, mcpVars, apiVars, env >>

\* Lines 24-34: WITHINGS_CLIENT_ID, WITHINGS_CLIENT_SECRET and
\* WITHINGS_REDIRECT_URI are required.
BootRequiredEnvVars ==
  /\ boot.pc = "requiredEnvVars"
  /\ boot' = IF env.WITHINGS
             THEN [ pc |-> "createApp", error |-> "" ]
             ELSE BootFailed("Missing required environment variable")
  /\ UNCHANGED << now, oauthVars, limitVars, mcpVars, apiVars, env >>

\* Lines 36-52: the app is created and exported; requests are served.
BootCreateApp ==
  /\ boot.pc = "createApp"
  /\ boot' = Serving
  /\ UNCHANGED << now, oauthVars, limitVars, mcpVars, apiVars, env >>

(***************************************************************************)
(* The initial state and the specifications.  Each specification runs the  *)
(* operations of one component; the others stand still.                    *)
(***************************************************************************)

OAuthInit ==
  /\ uuid = 0
  /\ registered_clients = EmptyTable
  /\ oauth_sessions = EmptyTable
  /\ auth_codes = EmptyTable
  /\ mcp_tokens = EmptyTable
  /\ callbackReq = [ r \in 1..MaxCallbackReqs |-> IdleCallback ]
  /\ tokenReq = [ r \in 1..MaxTokenReqs |-> IdleTokenReq ]
  /\ resp = NoResp
  /\ handed = [ c \in AllUuids \cup {UnknownId, NoValue} |-> 0 ]
  /\ minted = EmptyTable
  /\ flows = EmptyTable
  /\ entropy = 0

LimitInit ==
  /\ rate_limits = EmptyTable
  /\ limitCall = [ c \in 1..MaxLimitCalls |-> IdleLimitCall ]
  /\ limitTxn = [ t \in 1..MaxLimitCalls |-> IdleTxn ]
  /\ rowLock = [ id \in LimitIdentifiers |-> 0 ]

McpInit ==
  /\ sessions = EmptyTable
  /\ transports = <<>>
  /\ mcpGet = [ g \in 1..MaxMcpGets |-> IdleMcpGet ]
  /\ mcpPost = [ p \in 1..MaxMcpPosts |-> IdleMcpPost ]
  /\ delivered = <<>>
  /\ mcpDone = NoMcpDone

ApiInit ==
  /\ apiCall = [ a \in 1..MaxApiCalls |-> IdleApiCall ]
  /\ apiDone = NoApiDone
  /\ grants = 0
  /\ vaultDone = NoVaultDone
  /\ tampered = {}
  /\ issued = EmptyTable

\* A deployment that is configured and has started.
ServingInit == env = ConfiguredEnvironment /\ boot = Serving

Init == now = 0 /\ OAuthInit /\ LimitInit /\ McpInit /\ ApiInit /\ ServingInit

\* The process as it is launched, in whatever environment.
StartInit ==
  /\ now = 0 /\ OAuthInit /\ LimitInit /\ McpInit /\ ApiInit
  /\ env \in Environments
  /\ boot = Started

\* Registration and /authorize with every kind of request.
AuthorizeNext ==
  \/ \E uris \in RegisteredUriSets : Register(uris)
  \/ \E q \in AuthorizeRequests(
                {"code", "token"},
                DOMAIN registered_clients \cup {UnknownId, NoValue},
                RedirectUris \cup {NoValue},
                ClientStates \cup {NoValue},
                {<<NoChallenge, NoValue>>, <<ChallengeOfVerifier1, "S256">>}) :
          Authorize(q)
  \/ CleanupOauthSessions
  \/ Tick

SpecAuthorize == Init /\ [][AuthorizeNext]_vars

\* The whole flow up to the bridge token, with every kind of request to
\* /token; the requests to /authorize and /callback are well-formed ones of
\* a registered client.
TokenNext ==
  \/ Register({"https://app.example/cb"})
  \/ \E q \in AuthorizeRequests({"code"}, DOMAIN registered_clients,
                                {"https://app.example/cb"}, ClientStates,
                                PkceParams) : Authorize(q)
  \/ \E r \in 1..MaxCallbackReqs, q \in CallbackRequests(WithingsCodes) :
          CallbackBegin(r, q)
  \/ \E r \in 1..MaxCallbackReqs : CallbackStoreAuthCode(r)
  \/ \E r \in 1..MaxCallbackReqs : CallbackFinish(r)
  \/ \E r \in 1..MaxTokenReqs, q \in TokenRequests : PostToken(r, q)
  \/ \E r \in 1..MaxTokenReqs, outcome \in ProviderOutcomes,
        expiresIn \in ProviderExpiresIn : TokenExchange(r, outcome, expiresIn)
  \/ CleanupOauthSessions
  \/ CleanupAuthCodes
  \/ Tick

SpecToken == Init /\ [][TokenNext]_vars

RateLimiterNext ==
  \/ \E c \in 1..MaxLimitCalls, headers \in RateLimitHeaders,
        path \in RateLimitedPaths, config \in RateLimitConfigs :
       RateLimitBegin(c, headers, path, config)
  \/ \E c \in 1..MaxLimitCalls : CheckLimitSelect(c)
  \/ \E c \in 1..MaxLimitCalls : CheckLimitWrite(c)
  \/ CleanupRateLimits
  \/ Tick

SpecRateLimiter == Init /\ [][RateLimiterNext]_vars

\* The limiter with a backing store whose reads and writes can fail, for
\* the requests of one client.
RateLimiterFaultsNext ==
  \/ \E c \in 1..MaxLimitCalls, path \in RateLimitedPaths,
        config \in RateLimitConfigs :
       RateLimitBegin(c, [ forwardedFor |-> <<>>, realIp |-> "10.0.0.2" ],
                      path, config)
  \/ \E c \in 1..MaxLimitCalls : CheckLimitSelect(c)
  \/ \E c \in 1..MaxLimitCalls : CheckLimitSelectFails(c)
  \/ \E c \in 1..MaxLimitCalls : CheckLimitWrite(c)
  \/ \E c \in 1..MaxLimitCalls : CheckLimitWriteFails(c)
  \/ CleanupRateLimits
  \/ Tick

SpecRateLimiterFaults == Init /\ [][RateLimiterFaultsNext]_vars

CheckRateLimitNext ==
  \/ \E t \in 1..MaxLimitCalls, id \in LimitIdentifiers,
        config \in RateLimitConfigs : TxnBegin(t, id, config)
  \/ \E t \in 1..MaxLimitCalls : TxnSelectForUpdate(t)
  \/ \E t \in 1..MaxLimitCalls : TxnWrite(t)
  \/ \E t \in 1..MaxLimitCalls : TxnCommit(t)
  \/ CleanupRateLimits
  \/ Tick

SpecCheckRateLimit == Init /\ [][CheckRateLimitNext]_vars

McpNext ==
  \/ \E g \in 1..MaxMcpGets, header \in McpSessionHeaders,
        mcpAccessToken \in BearerTokens :
       HandleMcpGet(g, header, mcpAccessToken)
  \/ \E g \in 1..MaxMcpGets : HandleMcpGetReplace(g)
  \/ \E g \in 1..MaxMcpGets, mcpToken \in BearerTokens,
        body \in McpBodies : HandleMcpPostInitial(g, mcpToken, body)
  \/ \E g \in 1..MaxMcpGets : McpConnected(g)
  \/ \E g \in 1..MaxMcpGets : Abort(g)
  \/ \E p \in 1..MaxMcpPosts, header \in McpSessionHeaders,
        mcpToken \in BearerTokens, body \in McpBodies :
       HandleMcpPost(p, header, mcpToken, body)
  \/ \E p \in 1..MaxMcpPosts : HandleMcpPostMessage(p)
  \/ \E method \in McpMethods, header \in McpSessionHeaders,
        mcpToken \in BearerTokens : HandleMcp(method, header, mcpToken)

SpecMcp == Init /\ [][McpNext]_vars

\* The sweep, with time passing, and the requests of one bearer.
PingBody == [ parses |-> TRUE, message |-> PingRequest ]

SweepNext ==
  \/ \E g \in 1..MaxMcpGets, header \in McpSessionHeaders :
       HandleMcpGet(g, header, "token-A")
  \/ \E g \in 1..MaxMcpGets : HandleMcpGetReplace(g)
  \/ \E g \in 1..MaxMcpGets : McpConnected(g)
  \/ \E g \in 1..MaxMcpGets : Abort(g)
  \/ \E p \in 1..MaxMcpPosts, header \in McpSessionHeaders :
       HandleMcpPost(p, header, "token-A", PingBody)
  \/ \E p \in 1..MaxMcpPosts : HandleMcpPostMessage(p)
  \/ Cleanup
  \/ Advance(MaxIdleTime)

SpecSweep == Init /\ [][SweepNext]_vars

\* /mcp behind authenticateBearer, with every kind of Authorization header,
\* while the bridge token is stored, deleted, and expires.
McpAuthNext ==
  \/ IssueBridgeToken
  \/ VaultDelete("token-A")
  \/ TokenTtlPasses
  \/ \E method \in McpMethods :
       \E authHeader \in McpAuthorizationHeaders,
          header \in McpSessionHeaders,
          body \in IF method = "GET" THEN {NoMcpBody} ELSE {PingBody} :
         McpAuthenticate(method, authHeader, header, body)
  \/ \E g \in 1..MaxMcpGets : McpGetNext(g)
  \/ \E g \in 1..MaxMcpGets : McpPostInitialNext(g)
  \/ \E p \in 1..MaxMcpPosts : McpPostNext(p)
  \/ \E g \in 1..MaxMcpGets : HandleMcpGetReplace(g)
  \/ \E g \in 1..MaxMcpGets : McpConnected(g)
  \/ \E p \in 1..MaxMcpPosts : HandleMcpPostMessage(p)

SpecMcpAuth == Init /\ [][McpAuthNext]_vars

\* Event streams with their heartbeat timers: streams are opened, replaced
\* by a reconnect, break, and are aborted by the client.
HeartbeatNext ==
  \/ \E g \in 1..MaxMcpGets, header \in McpSessionHeaders :
       HandleMcpGet(g, header, "token-A")
  \/ \E g \in 1..MaxMcpGets : HandleMcpGetReplace(g)
  \/ \E g \in 1..MaxMcpGets : McpConnected(g)
  \/ \E g \in 1..MaxMcpGets : Heartbeat(g)
  \/ \E g \in 1..MaxMcpGets : StreamBreaks(g)
  \/ \E g \in 1..MaxMcpGets : Abort(g)

SpecHeartbeat == Init /\ [][HeartbeatNext]_vars

\* POST requests that a client sends to one session one after the other,
\* each with its own message: the n-th request carries the id n.
MaxOrderedPosts == 3

\* How many requests to /callback are in progress at once.
MaxConcurrentCallbacks == 2

\* How many calls of checkLimit one client makes one after the other.
MaxSequentialCalls == 5

NumberedRequest(n) ==
  [ parses  |-> TRUE,
    message |-> [ PingRequest EXCEPT
                    !.id = JsonNumber(<<"1", "2", "3", "4">>[n]) ] ]

\* The session manager with room for MaxOrderedPosts requests in progress.
OrderedInit ==
  /\ now = 0 /\ OAuthInit /\ LimitInit /\ ApiInit /\ ServingInit
  /\ sessions = EmptyTable
  /\ transports = <<>>
  /\ mcpGet = [ g \in 1..MaxMcpGets |-> IdleMcpGet ]
  /\ mcpPost = [ p \in 1..MaxOrderedPosts |-> IdleMcpPost ]
  /\ delivered = <<>>
  /\ mcpDone = NoMcpDone

\* One bearer opens sessions and posts numbered messages to them; request
\* p arrives (handleMcpPost starts) after request p - 1 has arrived, and
\* the bodies are read in any order.
OrderedNext ==
  \/ \E g \in 1..MaxMcpGets : HandleMcpGet(g, NoValue, "token-A")
  \/ \E g \in 1..MaxMcpGets : McpConnected(g)
  \/ \E g \in 1..MaxMcpGets : Abort(g)
  \/ \E p \in 1..MaxOrderedPosts, header \in DOMAIN sessions :
       HandleMcpPost(p, header, "token-A", NumberedRequest(p))
  \/ \E p \in 1..MaxOrderedPosts : HandleMcpPostMessage(p)

SpecMcpOrder == OrderedInit /\ [][OrderedNext]_vars

\* The provider's code is exchanged in the first minutes of a behaviour.
EarlyTokenExchange(r) ==
  /\ now <= MaxTime
  /\ TokenExchange(r, "ok", 10800)

\* One client's flows with well-formed requests, the three lookups at any
\* time, the janitors at any time, and time passing: ten minutes at a time,
\* and thirty days at once.
ExpiryNext ==
  \/ Register({"https://app.example/cb"})
  \/ \E q \in AuthorizeRequests({"code"}, DOMAIN registered_clients,
                                {"https://app.example/cb"}, {"S1"},
                                {<<ChallengeOfVerifier1, "S256">>}) :
       Authorize(q)
  \/ \E q \in [ code : WithingsCodes, state : AllUuids ] : CallbackBegin(1, q)
  \/ CallbackStoreAuthCode(1)
  \/ CallbackFinish(1)
  \/ \E q \in { t \in TokenRequests :
                  /\ t.grantType = "authorization_code"
                  /\ t.code \in IssuedCodes
                  /\ t.redirectUri = "https://app.example/cb"
                  /\ t.codeVerifier \in Verifiers } : PostToken(1, q)
  \/ EarlyTokenExchange(1)
  \/ IssueBridgeToken
  \/ \E mcpToken \in DOMAIN minted \cup DOMAIN issued : VaultGet(mcpToken)
  \/ CleanupOauthSessions
  \/ CleanupAuthCodes
  \/ CleanupMcpTokens
  \/ Tick
  \/ TokenTtlPasses

SpecExpiry == Init /\ [][ExpiryNext]_vars

\* One client's flow and the bearer's requests, with the database failing
\* under any of the four lookups.
StoreFaultsNext ==
  \/ Register({"https://app.example/cb"})
  \/ \E q \in AuthorizeRequests({"code"}, DOMAIN registered_clients,
                                {"https://app.example/cb"}, {"S1"},
                                {<<ChallengeOfVerifier1, "S256">>}) :
       Authorize(q)
  \/ \E q \in AuthorizeRequests({"code"}, DOMAIN registered_clients,
                                {"https://app.example/cb"}, {"S1"},
                                {<<ChallengeOfVerifier1, "S256">>}) :
       AuthorizeStoreFails(q)
  \/ \E q \in [ code : WithingsCodes, state : DOMAIN oauth_sessions ] :
       CallbackBegin(1, q)
  \/ \E q \in [ code : WithingsCodes, state : DOMAIN oauth_sessions ] :
       CallbackStoreFails(q)
  \/ CallbackStoreAuthCode(1)
  \/ CallbackFinish(1)
  \/ \E q \in { t \in TokenRequests : t.code \in DOMAIN auth_codes } :
       TokenStoreFails(q)
  \/ IssueBridgeToken
  \/ AuthenticateBearer("token-A")
  \/ BearerStoreFails("token-A")
  \/ Tick

SpecStoreFaults == Init /\ [][StoreFaultsNext]_vars

\* One client's flow with well-formed requests; the provider answers the
\* exchange in every way and with every lifetime.
TokenBodyNext ==
  \/ Register({"https://app.example/cb"})
  \/ \E q \in AuthorizeRequests({"code"}, DOMAIN registered_clients,
                                {"https://app.example/cb"}, {"S1"},
                                {<<ChallengeOfVerifier1, "S256">>}) :
       Authorize(q)
  \/ \E q \in [ code : WithingsCodes, state : DOMAIN oauth_sessions ] :
       CallbackBegin(1, q)
  \/ CallbackStoreAuthCode(1)
  \/ CallbackFinish(1)
  \/ \E q \in { t \in TokenRequests : t.code \in DOMAIN auth_codes } :
       PostToken(1, q)
  \/ \E outcome \in ProviderOutcomes, expiresIn \in ExchangeLifetimes :
       TokenExchange(1, outcome, expiresIn)
  \/ Tick

SpecTokenBody == Init /\ [][TokenBodyNext]_vars

\* One bearer's stream and messages, the server's pushes, and the sweep,
\* with time passing.
PushNext ==
  \/ \E g \in 1..MaxMcpGets, header \in McpSessionHeaders :
       HandleMcpGet(g, header, "token-A")
  \/ \E g \in 1..MaxMcpGets : HandleMcpGetReplace(g)
  \/ \E g \in 1..MaxMcpGets : McpConnected(g)
  \/ \E p \in 1..MaxMcpPosts, header \in McpSessionHeaders :
       HandleMcpPost(p, header, "token-A", PingBody)
  \/ \E p \in 1..MaxMcpPosts : HandleMcpPostMessage(p)
  \/ \E g \in 1..MaxMcpGets : TransportSend(g)
  \/ Cleanup
  \/ Advance(MaxIdleTime)

SpecPush == Init /\ [][PushNext]_vars

\* The limiter with room for MaxSequentialCalls calls.
SequentialInit ==
  /\ now = 0 /\ OAuthInit /\ McpInit /\ ApiInit /\ ServingInit
  /\ rate_limits = EmptyTable
  /\ limitCall = [ c \in 1..MaxSequentialCalls |-> IdleLimitCall ]
  /\ limitTxn = [ t \in 1..MaxLimitCalls |-> IdleTxn ]
  /\ rowLock = [ id \in LimitIdentifiers |-> 0 ]

\* A call of checkLimit that starts when the one before it has returned,
\* with the configuration of the calls before it.
SequentialBegin(c, config) ==
  /\ \A d \in DOMAIN limitCall :
       /\ limitCall[d].pc \in {"idle", "done"}
       /\ limitCall[d].pc = "done" => limitCall[d].config = config
  /\ RateLimitBegin(c, [ forwardedFor |-> <<>>, realIp |-> "10.0.0.2" ],
                    "/token", config)

\* One client's calls one after the other, the janitor, and time passing
\* between and within the calls.
SequentialNext ==
  \/ \E c \in 1..MaxSequentialCalls, config \in RateLimitConfigs :
       SequentialBegin(c, config)
  \/ \E c \in 1..MaxSequentialCalls : CheckLimitSelect(c)
  \/ \E c \in 1..MaxSequentialCalls : CheckLimitWrite(c)
  \/ CleanupRateLimits
  \/ Tick

SpecSequential == SequentialInit /\ [][SequentialNext]_vars

\* Two callers on two of the limited routes.
FrameHeaders ==
  { [ forwardedFor |-> <<>>, realIp |-> "10.0.0.2" ],
    [ forwardedFor |-> <<"10.0.0.1", "10.9.9.9">>, realIp |-> NoValue ] }

FramePaths == {"/authorize", "/token"}

FrameIdentifiers == { Identifier(h, p) : h \in FrameHeaders, p \in FramePaths }

FrameInit ==
  /\ now = 0 /\ OAuthInit /\ McpInit /\ ApiInit /\ ServingInit
  /\ rate_limits = EmptyTable
  /\ limitCall = [ c \in 1..MaxLimitCalls |-> IdleLimitCall ]
  /\ limitTxn = [ t \in 1..MaxLimitCalls |-> IdleTxn ]
  /\ rowLock = [ id \in FrameIdentifiers |-> 0 ]

\* The requests of the two callers, in any interleaving, the janitor, and
\* time passing.
FrameNext ==
  \/ \E c \in 1..MaxLimitCalls, headers \in FrameHeaders,
        path \in FramePaths, config \in RateLimitConfigs :
       RateLimitBegin(c, headers, path, config)
  \/ \E c \in 1..MaxLimitCalls : CheckLimitSelect(c)
  \/ \E c \in 1..MaxLimitCalls : CheckLimitWrite(c)
  \/ CleanupRateLimits
  \/ Tick

SpecLimitFrame == FrameInit /\ [][FrameNext]_vars

\* The OAuth router with room for MaxConcurrentCallbacks requests to
\* /callback in progress.
CallbackRaceInit ==
  /\ now = 0 /\ LimitInit /\ McpInit /\ ApiInit /\ ServingInit
  /\ uuid = 0
  /\ registered_clients = EmptyTable
  /\ oauth_sessions = EmptyTable
  /\ auth_codes = EmptyTable
  /\ mcp_tokens = EmptyTable
  /\ callbackReq = [ r \in 1..MaxConcurrentCallbacks |-> IdleCallback ]
  /\ tokenReq = [ r \in 1..MaxTokenReqs |-> IdleTokenReq ]
  /\ resp = NoResp
  /\ handed = [ c \in AllUuids \cup {UnknownId, NoValue} |-> 0 ]
  /\ minted = EmptyTable
  /\ flows = EmptyTable
  /\ entropy = 0

\* One client's flow; the requests to /callback, which carry a state that
\* /authorize has issued, are handled in any interleaving.
CallbackRaceNext ==
  \/ Register({"https://app.example/cb"})
  \/ \E q \in AuthorizeRequests({"code"}, DOMAIN registered_clients,
                                {"https://app.example/cb"}, {"S1"},
                                {<<ChallengeOfVerifier1, "S256">>}) :
       Authorize(q)
  \/ \E r \in 1..MaxConcurrentCallbacks,
        q \in [ code : WithingsCodes, state : DOMAIN flows ] :
       CallbackBegin(r, q)
  \/ \E r \in 1..MaxConcurrentCallbacks : CallbackStoreAuthCode(r)
  \/ \E r \in 1..MaxConcurrentCallbacks : CallbackFinish(r)
  \/ CleanupOauthSessions
  \/ Tick

SpecCallbackRace == CallbackRaceInit /\ [][CallbackRaceNext]_vars

\* The owner opens a session; the bearer of another token sends requests
\* that name it; the sweep runs, and time passes.
IntruderNext ==
  \/ \E g \in 1..MaxMcpGets : HandleMcpGet(g, NoValue, "token-A")
  \/ \E g \in 1..MaxMcpGets : McpConnected(g)
  \/ \E g \in 1..MaxMcpGets, header \in DOMAIN sessions :
       HandleMcpGet(g, header, "token-B")
  \/ \E p \in 1..MaxMcpPosts, header \in DOMAIN sessions,
        mcpToken \in BearerTokens :
       HandleMcpPost(p, header, mcpToken, PingBody)
  \/ \E p \in 1..MaxMcpPosts : HandleMcpPostMessage(p)
  \/ Cleanup
  \/ Advance(MaxIdleTime)

SpecIntruder == Init /\ [][IntruderNext]_vars

\* A bridge token over a provider token of thirteen minutes is stored once.
IssueShortLivedToken ==
  /\ "token-A" \notin DOMAIN issued
  /\ now <= MaxTime
  /\ VaultStore("token-A", ProviderAccessToken(0), ProviderRefreshToken(0),
                780)

\* A call of makeWithingsRequest that starts in the first minutes of a
\* behaviour.
EarlyApiBegin(a) ==
  /\ now <= MaxTime
  /\ ApiBegin(a, "token-A")

\* The calls of one bearer with their refreshes, while the record is
\* deleted, expires and is removed by the janitor at any time.
UpdateNext ==
  \/ IssueShortLivedToken
  \/ \E a \in 1..MaxApiCalls : EarlyApiBegin(a)
  \/ \E a \in 1..MaxApiCalls, outcome \in ProviderOutcomes :
       ApiRefresh(a, outcome, 10800)
  \/ \E a \in 1..MaxApiCalls : ApiUpdateRead(a)
  \/ \E a \in 1..MaxApiCalls : ApiUpdateWrite(a)
  \/ \E a \in 1..MaxApiCalls : ApiReread(a)
  \/ \E a \in 1..MaxApiCalls : ApiFetch(a)
  \/ VaultDelete("token-A")
  \/ CleanupMcpTokens
  \/ TokenTtlPasses
  \/ Tick

SpecUpdate == Init /\ [][UpdateNext]_vars

\* The token pairs handed to storeTokens: plain ASCII; accented letters and
\* a surrogate pair; and pairs with an unpaired surrogate on either side.
TokenPairs ==
  { << ProviderAccessToken(0), ProviderRefreshToken(0) >>,
    << <<233, 8364>>, <<55357, 56832>> >>,
    << ProviderAccessToken(0), LoneSurrogate >>,
    << LoneSurrogate, ProviderRefreshToken(0) >> }

\* The token store under the bearer middleware, with someone altering the
\* stored ciphertexts.
VaultNext ==
  \/ \E pair \in TokenPairs, expiresIn \in ProviderExpiresIn :
       VaultStore("token-A", pair[1], pair[2], expiresIn)
  \/ \E mcpToken \in BearerTokens : VaultGet(mcpToken)
  \/ \E mcpToken \in BearerTokens, column \in TamperColumns,
        position \in TamperPositions : Tamper(mcpToken, column, position)
  \/ \E token \in AuthorizationHeaders : AuthenticateBearer(token)
  \/ Tick

SpecVault == Init /\ [][VaultNext]_vars

\* body.expires_in of the refresh-token grant: thirteen minutes and three
\* hours.
RefreshedLifetimes == {780, 10800}

\* makeWithingsRequest calls for a stored credential, interleaved at every
\* await, with time passing.
ApiNext ==
  \/ \E expiresIn \in ProviderLifetimes :
       VaultStore("token-A", ProviderAccessToken(0), ProviderRefreshToken(0),
                  expiresIn)
  \/ \E a \in 1..MaxApiCalls, mcpToken \in BearerTokens : ApiBegin(a, mcpToken)
  \/ \E a \in 1..MaxApiCalls, outcome \in ProviderOutcomes,
        expiresIn \in RefreshedLifetimes : ApiRefresh(a, outcome, expiresIn)
  \/ \E a \in 1..MaxApiCalls : ApiUpdateRead(a)
  \/ \E a \in 1..MaxApiCalls : ApiUpdateWrite(a)
  \/ \E a \in 1..MaxApiCalls : ApiReread(a)
  \/ \E a \in 1..MaxApiCalls : ApiFetch(a)
  \/ Tick

SpecApi == Init /\ [][ApiNext]_vars

\* The process from its launch in any environment, and the token store once
\* requests are served.
BootNext ==
  \/ BootInitSupabase
  \/ BootInitStores
  \/ BootRequiredEnvVars
  \/ BootCreateApp
  \/ \E pair \in TokenPairs, expiresIn \in ProviderExpiresIn :
       VaultStore("token-A", pair[1], pair[2], expiresIn)
  \/ \E mcpToken \in BearerTokens : VaultGet(mcpToken)
  \/ \E token \in AuthorizationHeaders : AuthenticateBearer(token)
  \/ Tick

SpecBoot == StartInit /\ [][BootNext]_vars

\* The state parameters clients send to /authorize.
BrokerClientStates == {"S1", "S2"}

\* Requests to /token with a redirect_uri, and with the right verifier,
\* a wrong one or none.
BrokerTokenRequests ==
  { q \in TokenRequests :
      q.grantType = "authorization_code"
      => /\ q.redirectUri \in RedirectUris
         /\ q.codeVerifier \in Verifiers \cup {NoValue} }

\* The three endpoints of the broker, one request of each at a time, with
\* every kind of request to each, and time passing until the sessions and
\* the codes of the start have expired.
BrokerNext ==
  \/ Register({"https://app.example/cb"})
  \/ \E q \in AuthorizeRequests(
                {"code", "token"},
                DOMAIN registered_clients \cup {UnknownId},
                RedirectUris,
                BrokerClientStates \cup {NoValue},
                {<<ChallengeOfVerifier1, "S256">>}) : Authorize(q)
  \/ \E q \in CallbackRequests(WithingsCodes \cup {NoValue}) :
       CallbackBegin(1, q)
  \/ CallbackStoreAuthCode(1)
  \/ CallbackFinish(1)
  \/ \E q \in BrokerTokenRequests : PostToken(1, q)
  \/ \E outcome \in ProviderOutcomes, expiresIn \in ProviderExpiresIn :
       TokenExchange(1, outcome, expiresIn)
  \/ Advance(SESSION_TTL_MS)

SpecBroker == Init /\ [][BrokerNext]_vars

\* The /token requests that hold the row of code c while they wait for the
\* provider, and the bridge tokens minted from code c.
HoldersOf(c) ==
  {r \in DOMAIN tokenReq : tokenReq[r].pc = "exchange" /\ tokenReq[r].code = c}

MintedFrom(c) == {t \in DOMAIN minted : minted[t].code = c}

(***************************************************************************)
(* C1.  For any interleaving of /token requests that present the same      *)
(* authorization code, consumeAuthCode hands the code's row to at most one *)
(* of them, and at most one bridge token is minted per code: the requests  *)
(* that hold a code's row and the bridge tokens minted from it are never   *)
(* more than one together.                                                 *)
(***************************************************************************)
C1_CodeHandedToAtMostOne ==
  \A c \in AllUuids :
    /\ handed[c] <= 1
    /\ Cardinality(HoldersOf(c)) + Cardinality(MintedFrom(c)) <= handed[c]

\* A second request was refused with invalid_grant while the request that
\* consumed the code is still waiting for the provider.
C1_Witness ==
  \E r \in DOMAIN tokenReq :
    /\ tokenReq[r].pc = "exchange"
    /\ handed[tokenReq[r].code] = 1
    /\ resp.ep = "token"
    /\ resp.facts.usedBefore
    /\ resp.error = "invalid_grant"

(***************************************************************************)
(* C2.  Once a /token request has consumed an authorization code, every    *)
(* later authorization_code request to /token with that code is answered   *)
(* 400 invalid_grant and carries no token, whether the first exchange      *)
(* succeeded or failed at a later step.                                    *)
(***************************************************************************)
C2_UsedCodeIsInvalidGrant ==
  (resp.ep = "token" /\ resp.facts.grant = "authorization_code"
     /\ resp.facts.usedBefore)
  => /\ resp.status = 400
     /\ resp.error = "invalid_grant"
     /\ resp.body.access_token = ""

\* A used code is refused although no bridge token came of its first use (the
\* first exchange failed after consuming the code).
C2_Witness ==
  /\ resp.ep = "token"
  /\ resp.facts.grant = "authorization_code"
  /\ resp.facts.usedBefore
  /\ resp.error = "invalid_grant"
  /\ mcp_tokens = EmptyTable
  /\ \A r \in DOMAIN tokenReq : tokenReq[r].pc = "idle"

\* The last response is that of a /token request that consumed a code stored
\* with a challenge and presented its redirect_uri.
PkceChecked ==
  /\ resp.ep = "token"
  /\ resp.facts.grant = "authorization_code"
  /\ resp.facts.rowLive
  /\ resp.facts.redirectMatches
  /\ resp.facts.pkce # "none"

C4_AuthorizeRejectsUnregistered ==
  /\ (resp.ep = "authorize"
        /\ (~resp.facts.clientRegistered \/ ~resp.facts.uriRegistered))
     => /\ resp.status = 400
        /\ resp.location = NoLocation
        /\ ~resp.facts.stored
  /\ \A s \in DOMAIN oauth_sessions :
       LET row == oauth_sessions[s] IN
       /\ row.client_id \in DOMAIN registered_clients
       /\ row.redirect_uri \in registered_clients[row.client_id].redirect_uris

\* A registered client that has a session asked again with a redirect_uri it
\* did not register, and was refused.
C4_Witness ==
  /\ resp.ep = "authorize"
  /\ resp.facts.clientRegistered
  /\ ~resp.facts.uriRegistered
  /\ resp.facts.clientState # NoValue
  /\ resp.error = "invalid_request"
  /\ oauth_sessions # EmptyTable

\* The checks of /token that come before the call of the provider.
PassedChecks(facts) ==
  /\ facts.grant = "authorization_code"
  /\ facts.rowLive
  /\ facts.redirectMatches
  /\ facts.pkce \in {"none", "match"}

(***************************************************************************)
(* C5.  Every bridge token in the vault was minted by a /token request     *)
(* that consumed a live authorization code, presented the redirect_uri     *)
(* stored with it, passed PKCE when a challenge was stored, and got status *)
(* 0 from the provider; and the provider is called only for requests that  *)
(* passed all of these checks.                                             *)
(***************************************************************************)
C5_VaultProvenance ==
  /\ \A t \in DOMAIN mcp_tokens :
       /\ t \in DOMAIN minted
       /\ handed[minted[t].code] >= 1
       /\ PassedChecks(minted[t].facts)
       /\ minted[t].facts.provider = "ok"
  /\ \A r \in DOMAIN tokenReq :
       tokenReq[r].pc = "exchange" =>
         /\ PassedChecks(tokenReq[r].facts)
         /\ handed[tokenReq[r].code] >= 1
  /\ (resp.ep = "token" /\ resp.facts.provider # "") =>
       PassedChecks(resp.facts)

\* The vault holds a bridge token minted for a code stored without a
\* challenge, after the provider answered with status 0.
C5_Witness ==
  \E t \in DOMAIN mcp_tokens :
    /\ minted[t].facts.pkce = "none"
    /\ minted[t].facts.provider = "ok"
    /\ resp.ep = "token"
    /\ resp.body.access_token = t

\* The checkLimit calls made with an identifier and a configuration, and
\* those of them that returned allowed.
CallsOf(id, config) ==
  { c \in DOMAIN limitCall : /\ limitCall[c].pc # "idle"
                             /\ limitCall[c].identifier = id
                             /\ limitCall[c].config = config }

AllowedCalls(calls) == { c \in calls : limitCall[c].result.allowed }

(***************************************************************************)
(* C6.  Whenever N = maxRequests + 1 calls of checkLimit with one          *)
(* identifier and one configuration, all made inside one window, have      *)
(* returned, exactly maxRequests of them returned allowed.                 *)
(***************************************************************************)
C6_ExactlyMaxRequestsAllowed ==
  \A id \in LimitIdentifiers, config \in RateLimitConfigs :
    LET calls == CallsOf(id, config) IN
    ( /\ Cardinality(calls) = config.maxRequests + 1
      /\ \A c \in calls : limitCall[c].pc = "done" /\ limitCall[c].now = now
      /\ \A c \in DOMAIN limitCall :
           limitCall[c].identifier = id => c \in calls )
    => Cardinality(AllowedCalls(calls)) = config.maxRequests

\* The invocations that returned allowed for t's identifier and window.
AllowedInWindowOf(t) ==
  { u \in DOMAIN limitTxn : /\ limitTxn[u].pc = "done"
                            /\ limitTxn[u].allowed
                            /\ limitTxn[u].p_identifier = limitTxn[t].p_identifier
                            /\ limitTxn[u].reset_time = limitTxn[t].reset_time }

(***************************************************************************)
(* C7.  Among the invocations of check_rate_limit for one identifier that  *)
(* returned allowed = TRUE with the same reset_time, that is in one        *)
(* window, there are never more than p_max_requests.                       *)
(***************************************************************************)
C7_AllowedNeverExceedsMax ==
  \A t \in DOMAIN limitTxn :
    (limitTxn[t].pc = "done" /\ limitTxn[t].allowed)
    => Cardinality(AllowedInWindowOf(t)) <= limitTxn[t].p_max_requests

(***************************************************************************)
(* C8.  A request to /mcp that names an existing session with a bearer     *)
(* token other than the one the session was created with is answered 403   *)
(* forbidden; it closes no transport, leaves the session's entry with the  *)
(* transport it had, and hands no message to a handler, whether it is a    *)
(* GET or a POST.  So a request waits for its body, or for the old         *)
(* transport to close, only with the token of the session it named, and    *)
(* every message a transport's handler received was posted with the token  *)
(* that transport's server was made for.                                   *)
(***************************************************************************)
C8_MismatchIsForbiddenAndTouchesNothing ==
  /\ (mcpDone.facts.named /\ ~mcpDone.facts.owner)
     => /\ mcpDone.status = 403
        /\ mcpDone.error = "forbidden"
        /\ ~mcpDone.facts.touched
        /\ ~mcpDone.facts.delivered
        /\ ~mcpDone.facts.forwarded
  /\ \A p \in DOMAIN mcpPost :
       mcpPost[p].pc = "json" =>
         transports[mcpPost[p].transport].server = mcpPost[p].mcpToken
  /\ \A g \in DOMAIN mcpGet :
       mcpGet[g].pc = "delete" =>
         transports[mcpGet[g].replaced].server = mcpGet[g].mcpAccessToken
  /\ \A i \in DOMAIN delivered :
       \A k \in DOMAIN delivered[i] :
         delivered[i][k].from = transports[i].server

\* A POST with another bearer token was refused for a session that is live,
\* whose transport is open and has received its owner's message.
C8_Witness ==
  /\ mcpDone.op = "POST"
  /\ mcpDone.status = 403
  /\ mcpDone.sessionId \in DOMAIN sessions
  /\ ~transports[sessions[mcpDone.sessionId].transport]._closed
  /\ delivered[sessions[mcpDone.sessionId].transport] # <<>>

C10_SweepReapsIdleSessions ==
  (mcpDone.op = "cleanup" /\ mcpDone.at = now)
  => /\ \A sessionId \in DOMAIN sessions :
          ~(now - sessions[sessionId].lastActivity > SESSION_TIMEOUT)
     /\ \A i \in mcpDone.reaped :
          /\ transports[i]._closed
          /\ \A sessionId \in DOMAIN sessions :
               sessions[sessionId].transport # i

\* The sweep has just removed an idle session and left a session that was
\* active within the window.
C10_Witness ==
  /\ mcpDone.op = "cleanup"
  /\ mcpDone.at = now
  /\ mcpDone.reaped # {}
  /\ sessions # EmptyTable

(***************************************************************************)
(* C11.  getTokens(t) after storeTokens(t, d), with the record live and    *)
(* its row not written in between, returns the access token and the        *)
(* refresh token of d, the user id and the provider expiry, whenever the   *)
(* two tokens are well-formed strings (every surrogate in a pair).         *)
(***************************************************************************)
C11_StoreThenGetReturnsTheSame ==
  ( /\ vaultDone.op = "getTokens"
    /\ vaultDone.mcpToken \in DOMAIN issued
    /\ ~vaultDone.altered
    /\ IsWellFormed(issued[vaultDone.mcpToken].last.withingsAccessToken)
    /\ IsWellFormed(issued[vaultDone.mcpToken].last.withingsRefreshToken) )
  => /\ vaultDone.result.found
     /\ ~vaultDone.result.threw
     /\ Credential(vaultDone.result) = issued[vaultDone.mcpToken].last

\* A pair with accented letters and a surrogate pair has been stored and
\* read back.
C11_Witness ==
  /\ vaultDone.op = "getTokens"
  /\ vaultDone.mcpToken \in DOMAIN issued
  /\ ~vaultDone.altered
  /\ issued[vaultDone.mcpToken].last.withingsAccessToken = <<233, 8364>>
  /\ vaultDone.result.withingsRefreshToken = <<55357, 56832>>

\* C11 as stated, for every plaintext: an unpaired surrogate is returned
\* as U+FFFD.
C11_Original_EveryPlaintextComesBack ==
  ( /\ vaultDone.op = "getTokens"
    /\ vaultDone.mcpToken \in DOMAIN issued
    /\ ~vaultDone.altered )
  => /\ vaultDone.result.found
     /\ Credential(vaultDone.result) = issued[vaultDone.mcpToken].last

(***************************************************************************)
(* C12.  When a stored ciphertext of a Vault record has been modified,     *)
(* getTokens for its bridge token returns null and throws nothing, and     *)
(* authenticateBearer answers such a bearer 401, never a server error.     *)
(***************************************************************************)
C12_ModifiedCiphertextReadsAsNotFound ==
  ( /\ vaultDone.op \in {"getTokens", "authenticateBearer"}
    /\ vaultDone.altered )
  => /\ ~vaultDone.result.threw
     /\ ~vaultDone.result.found
     /\ vaultDone.op = "authenticateBearer" => vaultDone.status = 401

(***************************************************************************)
(* C13.  When the refresh-token grant of a makeWithingsRequest call fails, *)
(* the step leaves mcp_tokens as it was and ends the call with the error   *)
(* "Failed to refresh access token" after one refresh attempt and no       *)
(* write; and no call is on its way to the provider data request after a   *)
(* refresh whose tokens it has not written.                                *)
(***************************************************************************)
C13_RefreshFailureStep ==
  \A a \in 1..MaxApiCalls :
    (apiCall[a].pc = "refresh" /\ apiCall'[a].pc # "updateRead"
       /\ apiCall'[a] # apiCall[a])
    => /\ mcp_tokens' = mcp_tokens
       /\ apiCall'[a] = IdleApiCall
       /\ apiDone'.outcome = "error"
       /\ apiDone'.error = "Failed to refresh access token"
       /\ apiDone'.mcpToken = apiCall[a].mcpToken
       /\ apiDone'.refreshes = 1
       /\ apiDone'.writes = 0

C13_FailedRefreshLeavesCredentialAndFails ==
  /\ [][C13_RefreshFailureStep]_vars
  /\ [](\A a \in 1..MaxApiCalls :
          apiCall[a].pc \in {"reread", "fetch"}
          => apiCall[a].writes = apiCall[a].refreshes)

\* A call has just failed at the refresh-token grant, with the credential
\* it read still in the store.
C13_Witness ==
  /\ apiDone.outcome = "error"
  /\ apiDone.error = "Failed to refresh access token"
  /\ apiDone.refreshes = 1
  /\ apiDone.writes = 0
  /\ apiDone.first.found
  /\ Credential(getTokens(apiDone.mcpToken)) = Credential(apiDone.first)

\* The credential that call's own refresh wrote: the tokens of the grant,
\* the user id of the record and the expiry counted from the call's time.
RefreshedCredential(done) ==
  [ withingsAccessToken |-> done.refreshedTokens.accessToken,
    withingsRefreshToken |-> done.refreshedTokens.refreshToken,
    withingsUserId |-> done.first.withingsUserId,
    expiresAt |-> done.now + done.refreshedTokens.expiresIn * 1000 ]

(***************************************************************************)
(* C14.  A makeWithingsRequest call that sent its provider data request    *)
(* after reading a credential whose expiry was less than EXPIRY_BUFFER_MS  *)
(* (five minutes) away, or past, has made the refresh-token grant, has     *)
(* written the new access token, refresh token and expiry with             *)
(* updateTokens, and has sent the request with an access token written by  *)
(* a refresh, not with the one it first read.  A call that read a          *)
(* credential with five minutes or more to go sent it without a refresh.   *)
(***************************************************************************)
C14_ExpiringTokenIsRefreshedBeforeUse ==
  apiDone.outcome = "sent"
  => IF apiDone.first.expiresAt - apiDone.now < EXPIRY_BUFFER_MS
     THEN /\ apiDone.refreshes = 1
          /\ apiDone.writes = 1
          /\ RefreshedCredential(apiDone) \in issued[apiDone.mcpToken].writes
          /\ Credential(apiDone.used) \in issued[apiDone.mcpToken].writes
          /\ apiDone.used.withingsAccessToken
               # apiDone.first.withingsAccessToken
          /\ \E n \in 1..grants :
               apiDone.used.withingsAccessToken = ProviderAccessToken(n)
     ELSE /\ apiDone.refreshes = 0
          /\ apiDone.writes = 0
          /\ apiDone.used = apiDone.first

\* A call read a credential with three minutes to go and sent its request
\* with the access token of its own refresh.
C14_Witness ==
  /\ apiDone.outcome = "sent"
  /\ apiDone.first.expiresAt - apiDone.now = 180000
  /\ apiDone.refreshes = 1
  /\ Credential(apiDone.used) = RefreshedCredential(apiDone)

\* C14 as stated, for whatever credential the call read last: the access
\* token sent had five minutes or more to go when the call read it.
C14_Original_SentTokenNeverWithinBuffer ==
  apiDone.outcome = "sent"
  => apiDone.used.expiresAt - apiDone.now >= EXPIRY_BUFFER_MS

(***************************************************************************)
(* C15.  Every record of mcp_tokens expires TTL_MS (thirty days) after     *)
(* storeTokens wrote it, however many times updateTokens has replaced its  *)
(* tokens and its provider expiry since.                                   *)
(***************************************************************************)
C15_UpdateKeepsRecordTtl ==
  \A mcpToken \in DOMAIN mcp_tokens :
    /\ mcpToken \in DOMAIN issued
    /\ mcp_tokens[mcpToken].expires_at = issued[mcpToken].at + TTL_MS

\* A record was stored, time passed, and updateTokens has replaced its
\* tokens twice.
C15_Witness ==
  \E mcpToken \in DOMAIN mcp_tokens :
    /\ issued[mcpToken].updates = 2
    /\ now > issued[mcpToken].at
    /\ Credential(getTokens(mcpToken)).withingsAccessToken
         = ProviderAccessToken(2)

(***************************************************************************)
(* C16.  With two makeWithingsRequest calls refreshing the same bridge     *)
(* token at once, the record always decrypts to the credential of the      *)
(* last write, which is the whole credential of one storeTokens or         *)
(* updateTokens call; and every getTokens of a call returned the whole     *)
(* credential of one such write.                                           *)
(***************************************************************************)
WholeCredential(mcpToken, data) ==
  data.found
  => /\ ~data.threw
     /\ mcpToken \in DOMAIN issued
     /\ Credential(data) \in issued[mcpToken].writes

C16_NoPartialCredential ==
  /\ \A mcpToken \in DOMAIN mcp_tokens :
       /\ getTokens(mcpToken).found
       /\ Credential(getTokens(mcpToken)) = issued[mcpToken].last
       /\ issued[mcpToken].last \in issued[mcpToken].writes
  /\ \A a \in 1..MaxApiCalls :
       /\ WholeCredential(apiCall[a].mcpToken, apiCall[a].first)
       /\ WholeCredential(apiCall[a].mcpToken, apiCall[a].existing)
       /\ WholeCredential(apiCall[a].mcpToken, apiCall[a].tokenData)
  /\ WholeCredential(apiDone.mcpToken, apiDone.used)

\* Two calls have both read the old credential and both written their own;
\* neither has read the record again yet.
C16_Witness ==
  /\ apiCall[1].pc = "reread"
  /\ apiCall[2].pc = "reread"
  /\ apiCall[1].mcpToken = apiCall[2].mcpToken
  /\ apiCall[1].existing = apiCall[2].existing
  /\ issued[apiCall[1].mcpToken].updates = 2

C18_NeverServingWithoutSecret ==
  boot.pc = "serving" => ~getMasterSecretThrows

\* A step that answers a request with a validation error.
Rejects(ep) ==
  /\ resp' # resp
  /\ resp'.ep = ep
  /\ resp'.status \in 400..499

\* The rows of auth_codes that a step removes.
RemovedCodes == DOMAIN auth_codes \ DOMAIN auth_codes'

(***************************************************************************)
(* C19.  A request to /authorize or /callback that is answered with a      *)
(* validation error (4xx) leaves registered_clients, oauth_sessions,       *)
(* auth_codes and mcp_tokens as they were.  A request to /token that is    *)
(* answered 4xx leaves registered_clients, oauth_sessions and mcp_tokens   *)
(* as they were; of auth_codes it removes at most the live row of the code *)
(* it presented (consumed before the redirect_uri and PKCE checks), and    *)
(* nothing when the grant type is unsupported or the code is not live.     *)
(***************************************************************************)
C19_RejectionStep ==
  /\ (Rejects("authorize") \/ Rejects("callback"))
     => UNCHANGED << registered_clients, oauth_sessions, auth_codes,
                     mcp_tokens >>
  /\ Rejects("token")
     => /\ UNCHANGED << registered_clients, oauth_sessions, mcp_tokens >>
        /\ \A code \in DOMAIN auth_codes' :
             code \in DOMAIN auth_codes
             /\ auth_codes'[code] = auth_codes[code]
        /\ Cardinality(RemovedCodes) <= 1
        /\ \A code \in RemovedCodes :
             /\ AuthCodeLive(auth_codes, code)
             /\ resp'.error \in {"invalid_grant", "invalid_request"}
             /\ resp'.facts.rowLive
        /\ resp'.error = "unsupported_grant_type" => RemovedCodes = {}

C19_RejectionLeavesStoresButConsumedCode == [][C19_RejectionStep]_vars

\* Each endpoint has answered 400: /token after it consumed the code.
C19_Witness ==
  /\ resp.ep = "token"
  /\ resp.status = 400
  /\ resp.facts.rowLive
  /\ auth_codes = EmptyTable
  /\ \E code \in AllUuids : handed[code] > 0

\* C19 as stated: every 4xx of the three endpoints leaves the four stores
\* as they were.
C19_OriginalStep ==
  (Rejects("authorize") \/ Rejects("callback") \/ Rejects("token"))
  => UNCHANGED << registered_clients, oauth_sessions, auth_codes,
                  mcp_tokens >>

C19_Original_RejectionLeavesAllStores == [][C19_OriginalStep]_vars

(***************************************************************************)
(* C20.  The redirect of /authorize to the provider carries the internal   *)
(* state that crypto.randomUUID() has just made, which is no state of an   *)
(* earlier flow and not the state the client sent.  The redirect that ends *)
(* /callback goes to the redirect_uri the client gave to /authorize of     *)
(* that flow and carries the state the client sent there, with the new     *)
(* authorization code.                                                     *)
(***************************************************************************)
C20_FlowStep ==
  /\ (resp' # resp /\ resp'.ep = "authorize" /\ resp'.status = 302)
     => /\ resp'.location.to = "withings"
        /\ resp'.location.state = randomUUID
        /\ resp'.location.state \notin DOMAIN flows
        /\ resp'.location.state \in DOMAIN flows'
        /\ resp'.location.state # flows'[resp'.location.state].state
        /\ resp'.location.state \notin BrokerClientStates
  /\ \A r \in DOMAIN callbackReq :
       (callbackReq[r].pc = "deleteSession" /\ callbackReq'[r].pc = "idle")
       => /\ callbackReq[r].internalState \in DOMAIN flows
          /\ resp'.ep = "callback"
          /\ resp'.status = 302
          /\ resp'.location.to = flows[callbackReq[r].internalState].redirectUri
          /\ resp'.location.state = flows[callbackReq[r].internalState].state
          /\ resp'.location.code = callbackReq[r].authCode

C20_StatesAreKeptApart == [][C20_FlowStep]_vars

\* Two flows were started with different client states, and the callback
\* of the second one has redirected to the client with the state "S2".
C20_Witness ==
  /\ resp.ep = "callback"
  /\ resp.status = 302
  /\ resp.location.state = "S2"
  /\ resp.location.to = "https://app.example/cb"
  /\ \E k \in DOMAIN flows : flows[k].state = "S1"

\* The row of oauth_sessions under this id exists and has not expired.
SessionLive(sessionId) ==
  /\ sessionId \in DOMAIN oauth_sessions
  /\ oauth_sessions[sessionId].expires_at > now

\* Every query /callback can be sent: any code or none, and as state the
\* id of any session ever made (live, expired or deleted), an id that never
\* was one, or none.
AnyCallbackRequests ==
  [ code  : WithingsCodes \cup {NoValue},
    state : AllUuids \cup {UnknownId, NoValue} ]

(***************************************************************************)
(* C21.  A request to GET /callback without code, without state, or with   *)
(* a state under which oauth_sessions has no unexpired row (never stored,  *)
(* expired, or deleted by an earlier callback) is answered 400, stores no  *)
(* authorization code, draws no UUID and does not go on to storeAuthCode;  *)
(* a request that has gone on holds a code, a state and the session found. *)
(***************************************************************************)
C21_BadCallbackStep ==
  \A r \in DOMAIN callbackReq, q \in AnyCallbackRequests :
    (/\ CallbackBegin(r, q)
     /\ (Falsy(q.code) \/ Falsy(q.state) \/ ~SessionLive(q.state)))
    => /\ resp'.ep = "callback"
       /\ resp'.status = 400
       /\ resp'.error = IF Falsy(q.code) \/ Falsy(q.state)
                        THEN "invalid_request" ELSE "invalid_state"
       /\ UNCHANGED << auth_codes, uuid, callbackReq, oauth_sessions >>

C21_BadCallbackIs400AndMintsNothing ==
  /\ [][C21_BadCallbackStep]_vars
  /\ [](\A r \in DOMAIN callbackReq :
          callbackReq[r].pc # "idle"
          => /\ ~Falsy(callbackReq[r].code)
             /\ ~Falsy(callbackReq[r].internalState)
             /\ callbackReq[r].session.found)

\* /callback has answered invalid_state while the table holds an expired
\* session and another flow's session had been deleted by its callback.
C21_Witness ==
  /\ resp.ep = "callback"
  /\ resp.status = 400
  /\ resp.error = "invalid_state"
  /\ ~resp.facts.sessionLive
  /\ \E s \in DOMAIN oauth_sessions : oauth_sessions[s].expires_at <= now
  /\ \E s \in DOMAIN flows : s \notin DOMAIN oauth_sessions

\* The Vault holds an unexpired row for this bridge token.
TokenLive(mcpToken) ==
  /\ mcpToken \in DOMAIN mcp_tokens
  /\ mcp_tokens[mcpToken].expires_at > now

\* The header is "Bearer " followed by a bridge token the Vault holds.
Admissible(authHeader) ==
  /\ authHeader.present
  /\ authHeader.start = "Bearer "
  /\ TokenLive(authHeader.rest)

\* The requests of /mcp that are past authenticateBearer and not finished.
PassedRequests ==
  { mcpGet[g] : g \in { h \in DOMAIN mcpGet :
                          mcpGet[h].pc \notin {"idle", "done"} } }
  \cup { mcpPost[p] : p \in { q \in DOMAIN mcpPost :
                                mcpPost[q].pc \notin {"idle", "done"} } }

(***************************************************************************)
(* C22.  A request to /mcp whose Authorization header is missing, empty,   *)
(* of another scheme, or names a bridge token for which the Vault holds no *)
(* unexpired row (never stored, deleted, or expired) when the middleware   *)
(* looks it up, is answered 401 and leaves the session table, the          *)
(* transports, the handlers' messages and the requests in progress as they *)
(* were.  The session table, a transport or a handler changes only in a    *)
(* step of a request that the middleware let through, and a request is let *)
(* through only with a bridge token that is live at that moment: so a POST *)
(* for a session whose bridge token has been deleted or has expired is     *)
(* answered 401 and nothing is delivered to the session.                   *)
(***************************************************************************)
\* The step ends in a 401 and has touched nothing of the sessions.
C22_Rejected ==
  /\ mcpDone'.op \in McpMethods
  /\ mcpDone'.status = 401
  /\ mcpDone'.error \in {"unauthorized", "invalid_token"}
  /\ UNCHANGED << sessions, transports, delivered, mcpGet, mcpPost >>

\* The first conjunct reads: a step of McpAuthenticate with a header that
\* is not admissible is a rejected one.
C22_McpStep ==
  /\ \/ C22_Rejected
     \/ \A method \in McpMethods, authHeader \in McpAuthorizationHeaders,
           header \in McpSessionHeaders :
          ~(/\ ~Admissible(authHeader)
            /\ McpAuthenticate(method, authHeader, header,
                  IF method = "GET" THEN NoMcpBody ELSE PingBody))
  /\ (sessions' # sessions \/ transports' # transports
      \/ delivered' # delivered)
     => PassedRequests # {}
  /\ \A g \in DOMAIN mcpGet :
       (mcpGet[g].pc = "idle" /\ mcpGet'[g].pc # "idle")
       => /\ mcpGet'[g].pc = "next"
          /\ TokenLive(mcpGet'[g].mcpAccessToken)
  /\ \A p \in DOMAIN mcpPost :
       (mcpPost[p].pc = "idle" /\ mcpPost'[p].pc # "idle")
       => /\ mcpPost'[p].pc = "next"
          /\ TokenLive(mcpPost'[p].mcpToken)

C22_McpIsAuthenticatedAtRequestTime == [][C22_McpStep]_vars

\* A session bound to "token-A" is in the table, the token's row has been
\* deleted or has expired, and a POST that named the session with that
\* token was answered 401.
C22_Witness ==
  /\ mcpDone.op = "POST"
  /\ mcpDone.status = 401
  /\ mcpDone.error = "invalid_token"
  /\ mcpDone.sessionId \in DOMAIN sessions
  /\ sessions[mcpDone.sessionId].mcpToken = "token-A"
  /\ ~TokenLive("token-A")
  /\ "token-A" \in DOMAIN issued

\* The place of a delivered message among the requests as they arrived.
ArrivalRank(entry) ==
  CHOOSE n \in 1..MaxOrderedPosts : entry.message = NumberedRequest(n).message

(***************************************************************************)
(* C23.  The messages that the handler of a transport has received are in  *)
(* the order in which their POST requests arrived at handleMcpPost.        *)
(***************************************************************************)
C23_DeliveredInArrivalOrder ==
  \A t \in DOMAIN delivered :
    \A i, j \in DOMAIN delivered[t] :
      i < j => ArrivalRank(delivered[t][i]) < ArrivalRank(delivered[t][j])

\* The stream's own session is in the live table.
StreamActive(stream) ==
  /\ stream.sessionId \in DOMAIN sessions
  /\ sessions[stream.sessionId].transport = stream.transport

\* What the abort listeners leave of a stream and its session.
CleanedUp(streams, table, channels, g) ==
  /\ ~streams[g].heartbeat
  /\ channels[streams[g].transport]._closed
  /\ ~(/\ streams[g].sessionId \in DOMAIN table
       /\ table[streams[g].sessionId].transport = streams[g].transport)

(***************************************************************************)
(* C24.  Once the write of a heartbeat on a stream has failed, the         *)
(* stream's heartbeat timer is cancelled, its transport is closed and its  *)
(* session is no longer in the live table.                                 *)
(***************************************************************************)
C24_FailedHeartbeatCleansUp ==
  \A g \in DOMAIN mcpGet :
    mcpGet[g].failed => CleanedUp(mcpGet, sessions, transports, g)

(***************************************************************************)
(* C25.  The step in which the connection of a stream is aborted while the *)
(* stream's session is in the live table cancels the stream's heartbeat    *)
(* timer, closes its transport and removes its session id from the table;  *)
(* and no heartbeat is written to a stream whose connection was aborted.   *)
(***************************************************************************)
C25_AbortStep ==
  \A g \in DOMAIN mcpGet :
    /\ (mcpGet[g].pc = "open" /\ mcpGet'[g].pc = "done"
        /\ StreamActive(mcpGet[g]))
       => /\ CleanedUp(mcpGet', sessions', transports', g)
          /\ mcpGet[g].sessionId \notin DOMAIN sessions'
    /\ mcpGet[g].pc = "done"
       => /\ mcpGet'[g].pings = mcpGet[g].pings
          /\ ~mcpGet'[g].heartbeat

C25_AbortCancelsHeartbeatAndSession == [][C25_AbortStep]_vars

\* A stream to which a heartbeat was written has been aborted: its timer
\* is off, its transport closed and its session gone, while the other
\* stream is still open.
C25_Witness ==
  \E g, h \in DOMAIN mcpGet :
    /\ mcpGet[g].pc = "done"
    /\ mcpGet[g].pings > 0
    /\ CleanedUp(mcpGet, sessions, transports, g)
    /\ mcpGet[g].sessionId \notin DOMAIN sessions
    /\ mcpGet[h].pc = "open"
    /\ mcpGet[h].heartbeat

\* The row of this key is in the table and its expiry time is not ahead.
ExpiredRow(table, key) ==
  /\ key \in DOMAIN table
  /\ table[key].expires_at <= now

\* What consumeAuthCode gives for a code that has no row.
NothingConsumed == [ data |-> NoAuthCode, codes |-> auth_codes ]

(***************************************************************************)
(* C26.  In every state, for a key whose row has expired and is still in   *)
(* the table, getSession, consumeAuthCode and getTokens give what they     *)
(* give for a key that has no row: null, and consumeAuthCode deletes       *)
(* nothing.  In every step, a /callback request goes on only with a        *)
(* session whose row is unexpired, consumeAuthCode hands out only the data *)
(* of an unexpired row, and a getTokens call returns a credential only for *)
(* an unexpired row.                                                       *)
(***************************************************************************)
C26_ExpiredReadsAsAbsent ==
  /\ getSession(UnknownId) = NoSession
  /\ consumeAuthCode(auth_codes, UnknownId) = NothingConsumed
  /\ getTokens(UnknownId) = NoTokenData
  /\ \A key \in AllUuids :
       /\ (key \notin DOMAIN oauth_sessions \/ ExpiredRow(oauth_sessions, key))
          => getSession(key) = NoSession
       /\ (key \notin DOMAIN auth_codes \/ ExpiredRow(auth_codes, key))
          => consumeAuthCode(auth_codes, key) = NothingConsumed
       /\ (key \notin DOMAIN mcp_tokens \/ ExpiredRow(mcp_tokens, key))
          => getTokens(key) = NoTokenData

C26_LookupStep ==
  /\ \A r \in DOMAIN callbackReq :
       (callbackReq[r].pc = "idle" /\ callbackReq'[r].pc # "idle")
       => ~ExpiredRow(oauth_sessions, callbackReq'[r].internalState)
  /\ \A code \in AllUuids :
       handed'[code] > handed[code] => ~ExpiredRow(auth_codes, code)
  /\ (vaultDone' # vaultDone /\ vaultDone'.op = "getTokens"
      /\ vaultDone'.result.found)
     => ~ExpiredRow(mcp_tokens, vaultDone'.mcpToken)

C26_NoExpiredRecordIsReturned ==
  [](C26_ExpiredReadsAsAbsent) /\ [][C26_LookupStep]_vars

\* Thirty days on, the rows of a bridge token, of an authorization code
\* and of a session are still in their tables: getTokens has returned null
\* for the token and /token has answered invalid_grant for the code.
C26_Witness ==
  /\ vaultDone.op = "getTokens"
  /\ ~vaultDone.result.found
  /\ ExpiredRow(mcp_tokens, vaultDone.mcpToken)
  /\ resp.ep = "token"
  /\ resp.error = "invalid_grant"
  /\ ~resp.facts.rowLive
  /\ \E code \in DOMAIN auth_codes :
       ExpiredRow(auth_codes, code) /\ handed[code] = 0
  /\ \E key \in DOMAIN oauth_sessions : ExpiredRow(oauth_sessions, key)

(***************************************************************************)
(* C27.  A request during which the query of the lookup failed (getClient  *)
(* in /authorize, getSession in /callback, consumeAuthCode in /token,      *)
(* getTokens behind authenticateBearer) is answered with a 5xx status.     *)
(***************************************************************************)
C27_StoreFailureIs5xx ==
  /\ resp.facts = StoreFailed => resp.status \in 500..599
  /\ vaultDone.storeFailed => vaultDone.status \in 500..599

(***************************************************************************)
(* C28.  Every 200 answer of POST /token carries token_type "Bearer" and   *)
(* expires_in 2592000 seconds (thirty days); the lifetime the provider     *)
(* gave its own access token, which the row of the issued token records,   *)
(* has no part in it.                                                      *)
(***************************************************************************)
TokenSuccess == resp.ep = "token" /\ resp.status = 200

\* The lifetime in seconds the provider gave the access token of a row.
ProviderLifetimeOf(row) ==
  (row.withings_expires_at - (row.expires_at - TTL_MS) * 600000) \div 1000

C28_TokenAnswerHasFixedLifetime ==
  TokenSuccess =>
    /\ resp.body.token_type = "Bearer"
    /\ resp.body.expires_in = 2592000
    /\ resp.body.expires_in = 30 * 24 * 60 * 60
    /\ resp.body.access_token \in DOMAIN mcp_tokens
    /\ ProviderLifetimeOf(mcp_tokens[resp.body.access_token])
         \in ExchangeLifetimes

C28_Witness ==
  /\ TokenSuccess
  /\ resp.body.expires_in = 2592000
  /\ resp.body.access_token \in DOMAIN mcp_tokens
  /\ ProviderLifetimeOf(mcp_tokens[resp.body.access_token]) = 780

(***************************************************************************)
(* C29.  A sweep that runs within SESSION_TIMEOUT of a message the server  *)
(* pushed on a session's stream leaves that session in the table: the push *)
(* counts as activity just as an inbound message does.                     *)
(***************************************************************************)
PushedWithinWindow ==
  /\ mcpDone.op = "send" /\ mcpDone.error = ""
  /\ mcpDone.sessionId \in DOMAIN sessions
  /\ now - mcpDone.at <= SESSION_TIMEOUT

C29_PushStep ==
  (PushedWithinWindow /\ mcpDone'.op = "cleanup")
    => mcpDone.sessionId \in DOMAIN sessions'

C29_PushKeepsSessionAlive == [][C29_PushStep]_vars

(***************************************************************************)
(* C30.  The calls of checkLimit that one client makes one after the other *)
(* with one configuration give the results of a fixed-window counter: the  *)
(* first call of a window counts 1 and sets the reset time to the time of  *)
(* the call plus windowMs, later calls up to the reset time count on       *)
(* without moving it, the first maxRequests calls of a window are allowed  *)
(* and no others, and the first call after the reset time starts a new     *)
(* window.  The stored count never exceeds maxRequests, and the remaining  *)
(* returned is maxRequests minus the count and never negative.             *)
(***************************************************************************)
RefIdle == [ started |-> FALSE, calls |-> 0, resetTime |-> 0 ]

\* The reference counter after a call at time `at`.
RefCall(state, at, config) ==
  IF ~state.started \/ at > state.resetTime
  THEN [ started |-> TRUE, calls |-> 1, resetTime |-> at + config.windowMs ]
  ELSE [ state EXCEPT !.calls = @ + 1 ]

RefCount(state, config) ==
  IF state.calls < config.maxRequests THEN state.calls
  ELSE config.maxRequests

RefResult(state, config) ==
  [ allowed   |-> state.calls <= config.maxRequests,
    remaining |-> config.maxRequests - RefCount(state, config),
    resetTime |-> state.resetTime ]

\* The reference counter after the first k calls.
RECURSIVE RefAfter(_)
RefAfter(k) ==
  IF k = 0 THEN RefIdle
  ELSE RefCall(RefAfter(k - 1), limitCall[k].now, limitCall[k].config)

ReturnedCalls == { c \in DOMAIN limitCall : limitCall[c].pc = "done" }

NoCallInProgress ==
  \A c \in DOMAIN limitCall : limitCall[c].pc \in {"idle", "done"}

\* Whether the calls returned so far, and the row they have left, are
\* those of the counter that After(k) gives after k calls.
CallsMatch(After(_)) ==
  /\ \A c \in ReturnedCalls :
       /\ limitCall[c].result = RefResult(After(c), limitCall[c].config)
       /\ limitCall[c].result.remaining >= 0
       /\ limitCall[c].next = limitCall[c].result.allowed
  /\ \A id \in DOMAIN rate_limits :
       limitCall[1].pc # "idle" =>
         rate_limits[id].request_count <= limitCall[1].config.maxRequests
  /\ (NoCallInProgress /\ ReturnedCalls # {}) =>
       LET last == Cardinality(ReturnedCalls)
           ref == After(last)
           id == limitCall[last].identifier
       IN IF id \in DOMAIN rate_limits
          THEN /\ rate_limits[id].request_count
                    = RefCount(ref, limitCall[last].config)
               /\ rate_limits[id].reset_time = ref.resetTime
               /\ limitCall[last].result.remaining
                    = limitCall[last].config.maxRequests
                        - rate_limits[id].request_count
          ELSE ref.resetTime < now

C30_SequentialCallsMatchReference == CallsMatch(RefAfter)

\* The same with the janitor taken into account: a call whose SELECT finds
\* the window's row deleted starts a new window as well.  The janitor
\* deletes a row only when its reset time has passed.
RefCallSwept(state, at, config, found) ==
  IF ~found THEN RefCall(RefIdle, at, config) ELSE RefCall(state, at, config)

RECURSIVE RefAfterSwept(_)
RefAfterSwept(k) ==
  IF k = 0 THEN RefIdle
  ELSE RefCallSwept(RefAfterSwept(k - 1), limitCall[k].now,
                    limitCall[k].config, limitCall[k].current.found)

C30_SequentialCallsMatchSweptReference ==
  /\ CallsMatch(RefAfterSwept)
  /\ \A c \in ReturnedCalls :
       LET before == RefAfterSwept(c - 1) IN
       (before.started /\ ~limitCall[c].current.found)
         => before.resetTime < now

\* A call allowed, a second at the reset time of the first that finds the
\* row deleted and is allowed in a window of its own, and a third refused
\* at the reset time of the second.
C30_Witness ==
  /\ ReturnedCalls = 1..3
  /\ limitCall[1].config.maxRequests = 1
  /\ limitCall[1].result.allowed
  /\ limitCall[2].now = limitCall[1].result.resetTime
  /\ ~limitCall[2].current.found
  /\ limitCall[2].result.allowed
  /\ limitCall[3].now = limitCall[2].result.resetTime
  /\ limitCall[3].current.found
  /\ ~limitCall[3].result.allowed
  /\ limitCall[3].result.remaining = 0

(***************************************************************************)
(* C31.  A call of checkLimit that returns allowed = false leaves the row  *)
(* of its identifier as it was, and the middleware answers 429 and does    *)
(* not call next(); no step of a request changes, creates or removes the   *)
(* row of an identifier other than its own.                                *)
(***************************************************************************)
RowOf(table, id) ==
  IF id \in DOMAIN table
  THEN [ found |-> TRUE, request_count |-> table[id].request_count,
         reset_time |-> table[id].reset_time ]
  ELSE NoRow

\* The request in slot c takes a step.
RequestStep(c) == limitCall'[c] # limitCall[c]

C31_FrameStep ==
  \A c \in DOMAIN limitCall :
    RequestStep(c) =>
      /\ \A id \in FrameIdentifiers \ {limitCall'[c].identifier} :
           RowOf(rate_limits', id) = RowOf(rate_limits, id)
      /\ limitCall'[c].pc # "done" => rate_limits' = rate_limits
      /\ (limitCall'[c].pc = "done" /\ ~limitCall'[c].result.allowed) =>
           /\ rate_limits' = rate_limits
           /\ limitCall'[c].status = 429
           /\ ~limitCall'[c].next

C31_RefusalAndOthersLeaveCounters == [][C31_FrameStep]_vars

\* A caller refused on /token while its counter on /authorize and its
\* counter on /token are both stored.
C31_Witness ==
  \E c \in DOMAIN limitCall :
    /\ limitCall[c].pc = "done"
    /\ limitCall[c].identifier = "10.0.0.2:/token"
    /\ ~limitCall[c].result.allowed
    /\ limitCall[c].status = 429
    /\ "10.0.0.2:/token" \in DOMAIN rate_limits
    /\ "10.0.0.2:/authorize" \in DOMAIN rate_limits

(***************************************************************************)
(* C32.  Of the requests to /callback that carry the state of one session, *)
(* at most one is redirected with a code: when only one session was ever   *)
(* created, a request is not redirected with a code right after another    *)
(* request was redirected with another code.                               *)
(***************************************************************************)
RedirectedWithCode(response) ==
  response.ep = "callback" /\ response.status = 302

C32_CallbackStep ==
  (Cardinality(DOMAIN flows) = 1 /\ RedirectedWithCode(resp)
     /\ RedirectedWithCode(resp'))
    => resp'.location.code = resp.location.code

C32_OneCodePerSession == [][C32_CallbackStep]_vars

(***************************************************************************)
(* C33.  The abort of a connection removes only the session the connection *)
(* created: when the connection's own transport has been closed by a      *)
(* reconnect, a session in the table that has another transport stays in   *)
(* the table, and its transport is not closed by the abort.                *)
(***************************************************************************)
AbortStep(g) == mcpGet[g].pc = "open" /\ mcpGet'[g].pc = "done"

C33_AbortStep ==
  \A g \in DOMAIN mcpGet :
    (AbortStep(g) /\ transports[mcpGet[g].transport]._closed) =>
      \A sessionId \in DOMAIN sessions :
        sessions[sessionId].transport # mcpGet[g].transport =>
          /\ sessionId \in DOMAIN sessions'
          /\ transports'[sessions[sessionId].transport]._closed
               = transports[sessions[sessionId].transport]._closed

C33_AbortRemovesOnlyItsOwnSession == [][C33_AbortStep]_vars

(***************************************************************************)
(* C34.  At most one open channel goes with a session id: the transport of *)
(* every established stream that is still open is the one the table holds  *)
(* for the stream's session id, and no two established streams of one      *)
(* session id have open transports.                                        *)
(***************************************************************************)
Established(g) ==
  mcpGet[g].pc = "open" /\ ~transports[mcpGet[g].transport]._closed

C34_OneOpenChannelPerSessionId ==
  /\ \A g \in DOMAIN mcpGet :
       Established(g) =>
         /\ mcpGet[g].sessionId \in DOMAIN sessions
         /\ sessions[mcpGet[g].sessionId].transport = mcpGet[g].transport
  /\ \A g, h \in DOMAIN mcpGet :
       (Established(g) /\ Established(h)
          /\ mcpGet[g].sessionId = mcpGet[h].sessionId) => g = h

(***************************************************************************)
(* C35.  A request that is answered 403 because its bearer token is not    *)
(* the session's leaves the table of sessions as it was, the session's     *)
(* lastActivity included.                                                  *)
(***************************************************************************)
ForbiddenStep ==
  /\ mcpDone'.status = 403
  /\ UNCHANGED << now, mcpGet, mcpPost, transports, delivered >>

C35_ForbiddenRequestStep == ForbiddenStep => sessions' = sessions

C35_ForbiddenRequestLeavesSession == [][C35_ForbiddenRequestStep]_vars

(***************************************************************************)
(* C36.  A message that POST /mcp acknowledges with 202 was handed to the  *)
(* handler of the session's transport: when the transport was closed       *)
(* (abort, sweep, replacement) while the request was waiting for its body, *)
(* the request is not answered 202.                                        *)
(***************************************************************************)
C36_AcknowledgedMeansDelivered ==
  (mcpDone.op = "POST" /\ mcpDone.status = 202) => mcpDone.facts.delivered

(***************************************************************************)
(* C37.  updateTokens creates no record and revives none: its steps add no *)
(* row to mcp_tokens and leave expires_at of every row as it was, so a     *)
(* bridge token whose record is absent or expired when updateTokens reads  *)
(* or writes has no record that getTokens returns afterwards either.       *)
(***************************************************************************)
RecordLive(tokens, mcpToken, at) ==
  mcpToken \in DOMAIN tokens /\ tokens[mcpToken].expires_at > at

\* The call in slot a takes a step of updateTokens.
UpdateTokensStep(a) ==
  /\ apiCall[a].pc \in {"updateRead", "updateWrite"}
  /\ apiCall'[a] # apiCall[a]

C37_UpdateStep ==
  \A a \in DOMAIN apiCall :
    UpdateTokensStep(a) =>
      /\ DOMAIN mcp_tokens' = DOMAIN mcp_tokens
      /\ \A t \in DOMAIN mcp_tokens :
           mcp_tokens'[t].expires_at = mcp_tokens[t].expires_at
      /\ ~RecordLive(mcp_tokens, apiCall[a].mcpToken, now)
           => ~RecordLive(mcp_tokens', apiCall[a].mcpToken, now')
      /\ (apiCall[a].pc = "updateRead"
            /\ ~RecordLive(mcp_tokens, apiCall[a].mcpToken, now))
           => mcp_tokens' = mcp_tokens /\ apiCall'[a].pc = "idle"

C37_UpdateNeverCreatesOrRevives == [][C37_UpdateStep]_vars

\* updateTokens read the record, the record was deleted, and the write of
\* updateTokens has run: there is no record.
C37_Witness ==
  \E a \in DOMAIN apiCall :
    /\ apiCall[a].pc = "reread"
    /\ apiCall[a].writes = 1
    /\ apiCall[a].existing.found
    /\ "token-A" \in DOMAIN issued
    /\ issued["token-A"].updates = 0
    /\ "token-A" \notin DOMAIN mcp_tokens
====
